---- MODULE Spec2Model ----
(***************************************************************************)
(* Verification model of the archive synchronisation core, of the          *)
(* shard-state replace transaction and of the block index of ton-indexer.  *)
(*                                                                         *)
(* Every component is a state machine over its own variables; a            *)
(* specification runs one component and keeps the others idle.             *)
(*   SpecMc      import_mc_blocks            (sync/mod.rs, sync.rs)        *)
(*   SpecSh      import_shard_blocks         (sync/mod.rs, sync.rs)        *)
(*   SpecQ       sync and its download queue (sync.rs)                     *)
(*   SpecL       sync over the archive stream (sync/mod.rs)                *)
(*   SpecBg      download_archives / save_archive (sync/mod.rs, sync.rs)   *)
(*   SpecRt      ShardStateReplaceTransaction (replace_transaction.rs)     *)
(*   SpecBi      BlockIndexDb                (block_index_db.rs)           *)
(*   SpecFz      finalize with cell contents (replace_transaction.rs)      *)
(*   SpecGc      BlockIndexDb::gc            (block_index_db.rs)           *)
(*   SpecLk      get_block_by_lt / get_block_by_utime (block_index_db.rs)  *)
(*   SpecBc      concurrent add_handle / get_block (block_index_db.rs)     *)
(*   SpecBh      set_masterchain_ref_seqno   (block_handle.rs)             *)
(*   SpecWb      warm_boot                   (boot.rs)                     *)
(*   SpecPf      key block proof checks      (boot.rs, sync/mod.rs)        *)
(*   SpecCk      choose_key_block            (boot.rs)                     *)
(*   SpecSv      StoredValue encodings (storage/mod.rs, top_blocks.rs)     *)
(*   SpecAr      archive_data_merge          (storage/mod.rs)              *)
(*   SpecPa      parse_archive               (sync.rs)                     *)
(*   SpecTb      TopBlocks::contains_shard_seq_no (top_blocks.rs)          *)
(***************************************************************************)
EXTENDS Integers, Sequences, FiniteSets, TLC

(***************************************************************************)
(* Bounds of the model.                                                    *)
(***************************************************************************)
\* Largest masterchain seq_no that occurs in an archive handed to
\* import_mc_blocks.
MaxMcSeqNo == 4

\* Number of distinct root hashes a block id of one seq_no can carry.
MaxHash == 2

(***************************************************************************)
(* Helpers.                                                                *)
(***************************************************************************)
Max(S) == CHOOSE x \in S : \A y \in S : y <= x

Min(S) == CHOOSE x \in S : \A y \in S : x <= y

(***************************************************************************)
(* import_mc_blocks                                                        *)
(*                                                                         *)
(* A block id is <<seq_no, root_hash>>; maps.mc_block_ids is a BTreeMap    *)
(* keyed by seq_no (parse_archive inserts id under id.seq_no), so it is a  *)
(* function from a set of seq_nos to ids whose first component is the key. *)
(***************************************************************************)
VARIABLES
    mc_block_ids,       \* maps.mc_block_ids of the archive being imported
    mc_init_last,       \* the last_mc_block_id argument of the call
    last_mc_block_id,   \* the loop variable last_mc_block_id
    mc_todo,            \* keys of mc_block_ids the for loop has not visited
    mc_applied,         \* ids whose handle was seen with meta().is_applied()
    mc_log,             \* seq_nos handed to apply_block_ext, in call order
    mc_result           \* "running", "Ok" or the error returned

mc_vars == <<mc_block_ids, mc_init_last, last_mc_block_id, mc_todo,
             mc_applied, mc_log, mc_result>>

BlockIds == (0..MaxMcSeqNo) \X (1..MaxHash)

\* All archives: a BTreeMap<u32, BlockIdExt> with id.seq_no as the key.
McArchives ==
    UNION { { f \in [K -> BlockIds] : \A k \in K : f[k][1] = k }
            : K \in SUBSET (1..MaxMcSeqNo) }

\* Outcomes of entry.get_data(), save_block and apply_block_ext for one id.
McOutcomes == {"Ok", "BlockNotFound", "BlockProofNotFound",
               "SaveBlockFailed", "ApplyBlockFailed"}

\* `id.seq_no != last_mc_block_id.seq_no + 1`
IsGap_NoCheck(id, last) == FALSE

IsGap(id, last) == id[1] # last[1] + 1

\* `id.seq_no <= last_mc_block_id.seq_no`
IsOld(id, last) == id[1] <= last[1]

McInit ==
    /\ mc_block_ids \in McArchives
    /\ mc_init_last \in BlockIds
    /\ last_mc_block_id = mc_init_last
    /\ mc_todo = DOMAIN mc_block_ids
    /\ mc_applied = {}
    /\ mc_log = << >>
    /\ mc_result = "running"

McIdle ==
    /\ mc_block_ids = << >>
    /\ mc_init_last = <<0, 1>>
    /\ last_mc_block_id = <<0, 1>>
    /\ mc_todo = {}
    /\ mc_applied = {}
    /\ mc_log = << >>
    /\ mc_result = "idle"

\* One iteration of `for id in maps.mc_block_ids.values()`: ascending keys.
McVisitOld ==
    /\ mc_result = "running"
    /\ mc_todo # {}
    /\ LET id == mc_block_ids[Min(mc_todo)] IN
         /\ IsOld(id, last_mc_block_id)
         /\ IF id[1] = last_mc_block_id[1] /\ last_mc_block_id # id
              THEN mc_result' = "MasterchainBlockIdMismatch"
              ELSE mc_result' = mc_result
         /\ mc_todo' = mc_todo \ {id[1]}
    /\ UNCHANGED <<mc_block_ids, mc_init_last, last_mc_block_id, mc_applied,
                   mc_log>>

McVisitGap ==
    /\ mc_result = "running"
    /\ mc_todo # {}
    /\ LET id == mc_block_ids[Min(mc_todo)] IN
         /\ ~IsOld(id, last_mc_block_id)
         /\ IsGap(id, last_mc_block_id)
         /\ mc_result' = "BlocksSkippedInArchive"
         /\ mc_todo' = mc_todo \ {id[1]}
    /\ UNCHANGED <<mc_block_ids, mc_init_last, last_mc_block_id, mc_applied,
                   mc_log>>

\* load_block_handle(id) yields a handle with is_applied(): whether a block
\* of the archive was applied before the call is the engine's state, chosen
\* when the handle is loaded.
McVisitApplied ==
    /\ mc_result = "running"
    /\ mc_todo # {}
    /\ LET id == mc_block_ids[Min(mc_todo)] IN
         /\ ~IsOld(id, last_mc_block_id)
         /\ ~IsGap(id, last_mc_block_id)
         /\ last_mc_block_id' = id
         /\ mc_applied' = mc_applied \cup {id}
         /\ mc_todo' = mc_todo \ {id[1]}
    /\ UNCHANGED <<mc_block_ids, mc_init_last, mc_log, mc_result>>

McVisitApply ==
    /\ mc_result = "running"
    /\ mc_todo # {}
    /\ LET id == mc_block_ids[Min(mc_todo)] IN
         /\ ~IsOld(id, last_mc_block_id)
         /\ ~IsGap(id, last_mc_block_id)
         /\ last_mc_block_id' = id
         /\ mc_todo' = mc_todo \ {id[1]}
         /\ \E outcome \in McOutcomes :
              IF outcome \in {"Ok", "ApplyBlockFailed"}
                THEN \* apply_block_ext was called for the block
                     /\ mc_log' = Append(mc_log, id[1])
                     /\ mc_applied' = IF outcome = "Ok"
                                        THEN mc_applied \cup {id}
                                        ELSE mc_applied
                     /\ mc_result' = IF outcome = "Ok"
                                       THEN mc_result ELSE outcome
                ELSE /\ mc_result' = outcome
                     /\ UNCHANGED <<mc_log, mc_applied>>
    /\ UNCHANGED <<mc_block_ids, mc_init_last>>

McReturn ==
    /\ mc_result = "running"
    /\ mc_todo = {}
    /\ mc_result' = "Ok"
    /\ UNCHANGED <<mc_block_ids, mc_init_last, last_mc_block_id, mc_todo,
                   mc_applied, mc_log>>

(***************************************************************************)
(* import_shard_blocks                                                     *)
(*                                                                         *)
(* The shard blocks of the archive are saved first; then, for every        *)
(* masterchain block of the archive above the shards-client cursor, one    *)
(* task per referenced shard block is spawned, the tasks are joined and    *)
(* the cursor is stored.                                                   *)
(***************************************************************************)
\* Largest masterchain seq_no of an archive handed to import_shard_blocks.
MaxShSeqNo == 3

\* Largest number of shard blocks one masterchain block references.
MaxShards == 2

VARIABLES
    sh_mc_ids,      \* keys of maps.mc_block_ids
    sh_pc,          \* "save", "loop", "join" or "done"
    sh_todo,        \* keys the for loop has not visited
    sh_last,        \* last_applied_mc_block_id.seq_no (the local variable)
    sh_cursor,      \* the persisted shards-client mc block seq_no
    sh_stored,      \* seq_nos passed to store_shards_client_mc_block_id
    sh_cur,         \* the masterchain seq_no whose tasks are being joined
    sh_tasks,       \* mc seq_no -> (task number -> state of the task)
    sh_result       \* "running", "Ok" or the error returned

sh_vars == <<sh_mc_ids, sh_pc, sh_todo, sh_last, sh_cursor, sh_stored,
             sh_cur, sh_tasks, sh_result>>

\* Results of a spawned task: Ok(()) (the handle was already applied, or
\* apply_block_ext, download_and_apply_block or download_zero_state
\* succeeded), Err(e), or a JoinError (the task panicked).
TaskOk == {"Ok"}

TaskFailed == {"Err", "JoinError"}

\* try_join_all resolves with Err as soon as one JoinHandle yields a
\* JoinError and with Ok(results) once every JoinHandle has yielded.
JoinResolved(tasks) ==
    \/ \E t \in DOMAIN tasks : tasks[t] = "JoinError"
    \/ \A t \in DOMAIN tasks : tasks[t] # "running"

\* `try_join_all(tasks).await?.into_iter().find(|item| item.is_err())`
JoinFailed_Ignored(tasks) == FALSE

JoinFailed(tasks) ==
    \E t \in DOMAIN tasks : tasks[t] \in TaskFailed

ShInit ==
    /\ sh_mc_ids \in SUBSET (1..MaxShSeqNo)
    /\ sh_pc = "save"
    /\ sh_todo = sh_mc_ids
    /\ sh_cursor \in 0..MaxShSeqNo
    /\ sh_last = sh_cursor
    /\ sh_stored = {}
    /\ sh_cur = 0
    /\ sh_tasks = << >>
    /\ sh_result = "running"

ShIdle ==
    /\ sh_mc_ids = {}
    /\ sh_pc = "idle"
    /\ sh_todo = {}
    /\ sh_cursor = 0
    /\ sh_last = 0
    /\ sh_stored = {}
    /\ sh_cur = 0
    /\ sh_tasks = << >>
    /\ sh_result = "idle"

\* The first loop: get_data and save_block of every shard block, then
\* load_shards_client_mc_block_id.
ShSaveBlocks ==
    /\ sh_pc = "save"
    /\ \E ok \in BOOLEAN :
         IF ok THEN /\ sh_pc' = "loop"
                    /\ sh_last' = sh_cursor
                    /\ UNCHANGED sh_result
               ELSE /\ sh_pc' = "done"
                    /\ sh_result' = "SaveBlockFailed"
                    /\ UNCHANGED sh_last
    /\ UNCHANGED <<sh_mc_ids, sh_todo, sh_cursor, sh_stored, sh_cur, sh_tasks>>

\* `if mc_seq_no <= last_applied_mc_block_id.seq_no { continue; }`
ShSkip ==
    /\ sh_pc = "loop"
    /\ sh_todo # {}
    /\ Min(sh_todo) <= sh_last
    /\ sh_todo' = sh_todo \ {Min(sh_todo)}
    /\ UNCHANGED <<sh_mc_ids, sh_pc, sh_last, sh_cursor, sh_stored, sh_cur,
                   sh_tasks, sh_result>>

\* load_block_handle, load_block_data, shards_blocks and the spawn loop.
ShSpawn ==
    /\ sh_pc = "loop"
    /\ sh_todo # {}
    /\ Min(sh_todo) > sh_last
    /\ LET s == Min(sh_todo) IN
         /\ sh_todo' = sh_todo \ {s}
         /\ \/ /\ sh_pc' = "done"
               /\ sh_result' = "MasterchainBlockNotFound"
               /\ UNCHANGED <<sh_cur, sh_tasks>>
            \/ \E n \in 0..MaxShards :
                 /\ sh_tasks' = (s :> [t \in 1..n |-> "running"]) @@ sh_tasks
                 /\ sh_cur' = s
                 /\ sh_pc' = "join"
                 /\ UNCHANGED sh_result
    /\ UNCHANGED <<sh_mc_ids, sh_last, sh_cursor, sh_stored>>

\* A spawned task runs to its end; tasks keep running after the caller
\* has returned.
ShTaskFinish ==
    /\ \E s \in DOMAIN sh_tasks : \E t \in DOMAIN sh_tasks[s] :
         /\ sh_tasks[s][t] = "running"
         /\ \E r \in TaskOk \cup TaskFailed :
              sh_tasks' = [sh_tasks EXCEPT ![s][t] = r]
    /\ UNCHANGED <<sh_mc_ids, sh_pc, sh_todo, sh_last, sh_cursor, sh_stored,
                   sh_cur, sh_result>>

\* The join resolves with an error: the function returns.
ShJoinErr ==
    /\ sh_pc = "join"
    /\ JoinResolved(sh_tasks[sh_cur])
    /\ JoinFailed(sh_tasks[sh_cur])
    /\ sh_pc' = "done"
    /\ sh_result' = "ShardTaskFailed"
    /\ UNCHANGED <<sh_mc_ids, sh_todo, sh_last, sh_cursor, sh_stored, sh_cur,
                   sh_tasks>>

\* The join resolves with Ok: store_shards_client_mc_block_id(mc_block_id)?
ShJoinOk ==
    /\ sh_pc = "join"
    /\ JoinResolved(sh_tasks[sh_cur])
    /\ ~JoinFailed(sh_tasks[sh_cur])
    /\ \E ok \in BOOLEAN :
         IF ok THEN /\ sh_cursor' = sh_cur
                    /\ sh_stored' = sh_stored \cup {sh_cur}
                    /\ sh_last' = sh_cur
                    /\ sh_pc' = "loop"
                    /\ UNCHANGED sh_result
               ELSE /\ sh_pc' = "done"
                    /\ sh_result' = "StoreFailed"
                    /\ UNCHANGED <<sh_cursor, sh_stored, sh_last>>
    /\ UNCHANGED <<sh_mc_ids, sh_todo, sh_cur, sh_tasks>>

ShReturn ==
    /\ sh_pc = "loop"
    /\ sh_todo = {}
    /\ sh_pc' = "done"
    /\ sh_result' = "Ok"
    /\ UNCHANGED <<sh_mc_ids, sh_todo, sh_last, sh_cursor, sh_stored, sh_cur,
                   sh_tasks>>

(***************************************************************************)
(* sync (sync.rs): the download queue, the response collector and the      *)
(* slow start.                                                             *)
(*                                                                         *)
(* The queue maps the first masterchain seq_no of an archive to its        *)
(* ArchiveStatus; q_pending counts, per seq_no, the requests made with     *)
(* response_collector.make_request() that have not been answered.          *)
(* The task is suspended where it awaits a response, so an action is the   *)
(* code between two such points.                                           *)
(***************************************************************************)
MAX_CONCURRENCY == 8

BLOCKS_IN_ARCHIVE == 100

\* The engine applies at most this many archives before the model stops
\* advancing the last applied block.
MaxArchives == 2

VARIABLES
    q_queue,        \* Queue.0 : seq_no -> "Downloading"|"NotFound"|"Downloaded"
    q_pending,      \* seq_no -> number of outstanding requests (> 0)
    q_concurrency,  \* the local variable concurrency
    q_engine_last,  \* seq_no of min(last applied mc block, shards client)
    q_last,         \* last_mc_block_id.seq_no of the current 'outer iteration
    q_synced,       \* what engine.is_synced() answers
    q_pc,           \* "outer", "apply", "process", "schedule", "wait", "done"
    q_result,       \* "running", "Ok" or the error returned
    q_applied,      \* number of apply calls that returned Ok, capped at 2
    q_sched,        \* <<concurrency, q_applied>> of the last start_downloads
    q_retry         \* the last call of retry_downloading_not_found_archives

q_vars == <<q_queue, q_pending, q_concurrency, q_engine_last, q_last,
            q_synced, q_pc, q_result, q_applied, q_sched, q_retry>>

Empty == << >>

RECURSIVE CountPending(_)
\* response_collector.count_pending()
CountPending(p) ==
    IF DOMAIN p = {} THEN 0
    ELSE LET s == CHOOSE x \in DOMAIN p : TRUE
         IN p[s] + CountPending([x \in DOMAIN p \ {s} |-> p[x]])

\* start_download: response_collector.make_request() and tokio::spawn
start_download(p, s) ==
    IF s \in DOMAIN p THEN [p EXCEPT ![s] = @ + 1] ELSE (s :> 1) @@ p

\* a response for s has been taken out of the collector
TakeResponse(p, s) ==
    IF p[s] > 1 THEN [p EXCEPT ![s] = @ - 1]
    ELSE [x \in DOMAIN p \ {s} |-> p[x]]

\* Queue::set_status: None when the entry is missing
set_status(q, s, status) == [q EXCEPT ![s] = status]

Downloaded(q) == { s \in DOMAIN q : q[s] = "Downloaded" }

NotFound(q) == { s \in DOMAIN q : q[s] = "NotFound" }

\* The seq_nos retry_downloading_not_found_archives re-issues.
\* Variants: the `latest < *seq_no` test inverted; every NotFound entry
\* probed instead of the earliest one.
ToRetry_AboveLatest(q, synced) ==
    IF Downloaded(q) # {}
      THEN { s \in NotFound(q) : ~(Max(Downloaded(q)) > s) }
      ELSE IF ~synced /\ DOMAIN q # {} /\ NotFound(q) = DOMAIN q
             THEN {Min(DOMAIN q)}
             ELSE {}

ToRetry_AllNotFound(q, synced) ==
    IF Downloaded(q) # {}
      THEN { s \in NotFound(q) : s <= Max(Downloaded(q)) }
      ELSE IF ~synced THEN NotFound(q) ELSE {}

ToRetry(q, synced) ==
    IF Downloaded(q) # {}
      THEN \* latest = the largest Downloaded seq_no
           { s \in NotFound(q) : ~(Max(Downloaded(q)) < s) }
      ELSE IF ~synced
             THEN \* any entry that is not NotFound: return Ok(())
                  IF DOMAIN q # {} /\ NotFound(q) = DOMAIN q
                    THEN {Min(DOMAIN q)}
                    ELSE {}
             ELSE {}

RECURSIVE StartAll(_, _)
StartAll(p, S) ==
    IF S = {} THEN p
    ELSE LET s == CHOOSE x \in S : TRUE
         IN StartAll(start_download(p, s), S \ {s})

\* retry_downloading_not_found_archives: the queue and the pending requests
\* after the call, and the seq_nos it started a download for.
retry_downloading_not_found_archives(q, p, synced) ==
    LET again == ToRetry(q, synced) IN
    [queue   |-> [s \in DOMAIN q |->
                    IF s \in again THEN "Downloading" ELSE q[s]],
     pending |-> StartAll(p, again),
     started |-> again]

\* `if queue.0.len() > concurrency { break; }`
QueueFull(q, concurrency) == Cardinality(DOMAIN q) > concurrency

\* `while response_collector.count_pending() < concurrency`
HasCapacity_Inclusive(p, concurrency) == CountPending(p) <= concurrency

HasCapacity(p, concurrency) == CountPending(p) < concurrency

RECURSIVE ScheduleLoop(_, _, _, _)
\* the while loop of start_downloads
ScheduleLoop(q, p, concurrency, mc_seq_no) ==
    IF ~HasCapacity(p, concurrency) THEN [queue |-> q, pending |-> p]
    ELSE IF QueueFull(q, concurrency) THEN [queue |-> q, pending |-> p]
    ELSE IF mc_seq_no \notin DOMAIN q
           THEN ScheduleLoop((mc_seq_no :> "Downloading") @@ q,
                             start_download(p, mc_seq_no),
                             concurrency, mc_seq_no + BLOCKS_IN_ARCHIVE)
           ELSE ScheduleLoop(q, p, concurrency,
                             mc_seq_no + BLOCKS_IN_ARCHIVE)

\* start_downloads: the retry, then the scheduling loop
start_downloads(q, p, synced, concurrency, mc_seq_no) ==
    LET r == retry_downloading_not_found_archives(q, p, synced)
        l == ScheduleLoop(r.queue, r.pending, concurrency, mc_seq_no)
    IN [queue |-> l.queue, pending |-> l.pending,
        retry |-> [pre |-> q, synced |-> synced, post |-> r.queue,
                   started |-> r.started, pending |-> r.pending]]

RetryLog(q, synced, r) ==
    [pre |-> q, synced |-> synced, post |-> r.queue, started |-> r.started,
     pending |-> r.pending]

NoRetry ==
    [pre |-> Empty, synced |-> TRUE, post |-> Empty, started |-> {},
     pending |-> Empty]

\* The slow start: `concurrency = MAX_CONCURRENCY` after a successful apply.
RaisedConcurrency_Keep(c) == c

RaisedConcurrency(c) == MAX_CONCURRENCY

QInit ==
    /\ q_queue = Empty
    /\ q_pending = Empty
    /\ q_concurrency = 1
    /\ q_engine_last = 0
    /\ q_last = 0
    /\ q_synced = FALSE
    /\ q_pc = "outer"
    /\ q_result = "running"
    /\ q_applied = 0
    /\ q_sched = <<1, 0>>
    /\ q_retry = NoRetry

QIdle ==
    /\ q_queue = Empty
    /\ q_pending = Empty
    /\ q_concurrency = 1
    /\ q_engine_last = 0
    /\ q_last = 0
    /\ q_synced = FALSE
    /\ q_pc = "idle"
    /\ q_result = "idle"
    /\ q_applied = 0
    /\ q_sched = <<1, 0>>
    /\ q_retry = NoRetry

\* engine.is_synced() changes with the blocks the node has and with time.
QSyncedChanges ==
    /\ q_pc \in {"outer", "apply", "process", "schedule", "wait"}
    /\ q_synced' = ~q_synced
    /\ UNCHANGED <<q_queue, q_pending, q_concurrency, q_engine_last, q_last,
                   q_pc, q_result, q_applied, q_sched, q_retry>>

\* `'outer: while !engine.is_synced()`: the loop ends, sync returns Ok(()).
QOuterSynced ==
    /\ q_pc = "outer"
    /\ q_synced
    /\ q_pc' = "done"
    /\ q_result' = "Ok"
    /\ UNCHANGED <<q_queue, q_pending, q_concurrency, q_engine_last, q_last,
                   q_synced, q_applied, q_sched, q_retry>>

\* ... or an iteration starts: last_mc_block_id is loaded.
QOuterIterate ==
    /\ q_pc = "outer"
    /\ ~q_synced
    /\ q_last' = q_engine_last
    /\ q_pc' = "apply"
    /\ UNCHANGED <<q_queue, q_pending, q_concurrency, q_engine_last,
                   q_synced, q_result, q_applied, q_sched, q_retry>>

\* apply(engine, &last_mc_block_id, seq_no, data): Ok advances the engine
\* by the archive when the archive starts right after the last block.
ApplyOk(seq_no) ==
    /\ q_engine_last < MaxArchives * BLOCKS_IN_ARCHIVE
    /\ q_engine_last' = IF seq_no = q_engine_last + 1
                          THEN q_engine_last + BLOCKS_IN_ARCHIVE
                          ELSE q_engine_last
    /\ q_applied' = IF q_applied < 2 THEN q_applied + 1 ELSE q_applied

\* One iteration of the loop "Apply downloaded blocks" whose
\* finish_download finds an archive.
QApplyQueued ==
    /\ q_pc = "apply"
    /\ LET sd == start_downloads(q_queue, q_pending, q_synced,
                                 q_concurrency, q_last + 1)
       IN /\ q_sched' = <<q_concurrency, q_applied>>
          /\ q_retry' = sd.retry
          /\ q_pending' = sd.pending
          /\ \E seq_no \in Downloaded(sd.queue) :
               \* Queue::finish_download(next_mc_seq_no)
               /\ seq_no <= q_last + 1
               /\ q_queue' = [s \in DOMAIN sd.queue \ {seq_no} |-> sd.queue[s]]
               /\ \/ /\ ApplyOk(seq_no)
                     /\ q_pc' = "outer"
                  \/ /\ q_pc' = "apply"
                     /\ UNCHANGED <<q_engine_last, q_applied>>
    /\ UNCHANGED <<q_concurrency, q_last, q_synced, q_result>>

\* ... or finds none: `None => break`.
QApplyNone ==
    /\ q_pc = "apply"
    /\ LET sd == start_downloads(q_queue, q_pending, q_synced,
                                 q_concurrency, q_last + 1)
       IN /\ q_sched' = <<q_concurrency, q_applied>>
          /\ q_retry' = sd.retry
          /\ q_pending' = sd.pending
          /\ q_queue' = sd.queue
          /\ ~\E seq_no \in Downloaded(sd.queue) : seq_no <= q_last + 1
          /\ q_pc' = "process"
    /\ UNCHANGED <<q_concurrency, q_engine_last, q_last, q_synced, q_result,
                   q_applied>>

\* `while !engine.is_synced()` of "Process queue": the loop ends.
QProcessSynced ==
    /\ q_pc = "process"
    /\ q_synced
    /\ q_pc' = "outer"
    /\ UNCHANGED <<q_queue, q_pending, q_concurrency, q_engine_last, q_last,
                   q_synced, q_result, q_applied, q_sched, q_retry>>

\* ... or the body is entered: `!engine.is_synced().await?` was true.
QProcessEnter ==
    /\ q_pc = "process"
    /\ ~q_synced
    /\ q_pc' = "schedule"
    /\ UNCHANGED <<q_queue, q_pending, q_concurrency, q_engine_last, q_last,
                   q_synced, q_result, q_applied, q_sched, q_retry>>

\* start_downloads runs, reading engine.is_synced() anew in its retry, and
\* the task awaits a response.
QProcessSchedule ==
    /\ q_pc = "schedule"
    /\ LET sd == start_downloads(q_queue, q_pending, q_synced,
                                 q_concurrency, q_last + 1)
       IN /\ q_sched' = <<q_concurrency, q_applied>>
          /\ q_retry' = sd.retry
          /\ q_pending' = sd.pending
          /\ q_queue' = sd.queue
    /\ q_pc' = "wait"
    /\ UNCHANGED <<q_concurrency, q_engine_last, q_last, q_synced, q_result,
                   q_applied>>

\* Some((seq_no, Ok(None))): NotFound, then the retry.
QResponseNotFound ==
    /\ q_pc = "wait"
    /\ \E seq_no \in DOMAIN q_pending :
         LET p == TakeResponse(q_pending, seq_no) IN
         IF seq_no \notin DOMAIN q_queue
           THEN /\ q_pc' = "done"
                /\ q_result' = "BrokenQueue"
                /\ q_pending' = p
                /\ UNCHANGED <<q_queue, q_retry>>
           ELSE LET q == set_status(q_queue, seq_no, "NotFound")
                    r == retry_downloading_not_found_archives(q, p, q_synced)
                IN /\ q_queue' = r.queue
                   /\ q_pending' = r.pending
                   /\ q_retry' = RetryLog(q, q_synced, r)
                   /\ q_pc' = "process"
                   /\ UNCHANGED q_result
    /\ UNCHANGED <<q_concurrency, q_engine_last, q_last, q_synced, q_applied,
                   q_sched>>

\* Some((seq_no, Ok(Some(data)))) with seq_no <= last_mc_block_id.seq_no + 1:
\* the archive is applied at once.
QResponseApply ==
    /\ q_pc = "wait"
    /\ \E seq_no \in DOMAIN q_pending :
         /\ seq_no <= q_last + 1
         /\ \/ /\ ApplyOk(seq_no)
               /\ q_queue' = [s \in DOMAIN q_queue \ {seq_no} |-> q_queue[s]]
               /\ q_pending' = TakeResponse(q_pending, seq_no)
               /\ q_concurrency' = RaisedConcurrency(q_concurrency)
               /\ q_pc' = "outer"
            \/ /\ q_pending' = start_download(TakeResponse(q_pending, seq_no),
                                              seq_no)
               /\ q_pc' = "process"
               /\ UNCHANGED <<q_queue, q_concurrency, q_engine_last,
                              q_applied>>
    /\ UNCHANGED <<q_last, q_synced, q_result, q_sched, q_retry>>

\* Some((seq_no, Ok(Some(data)))) with a later seq_no: parked as Downloaded,
\* then the retry.
QResponsePark ==
    /\ q_pc = "wait"
    /\ \E seq_no \in DOMAIN q_pending :
         /\ ~(seq_no <= q_last + 1)
         /\ LET p == TakeResponse(q_pending, seq_no) IN
            IF seq_no \notin DOMAIN q_queue
              THEN /\ q_pc' = "done"
                   /\ q_result' = "BrokenQueue"
                   /\ q_pending' = p
                   /\ UNCHANGED <<q_queue, q_retry>>
              ELSE LET q == set_status(q_queue, seq_no, "Downloaded")
                       r == retry_downloading_not_found_archives(q, p,
                                                                 q_synced)
                   IN /\ q_queue' = r.queue
                      /\ q_pending' = r.pending
                      /\ q_retry' = RetryLog(q, q_synced, r)
                      /\ q_pc' = "process"
                      /\ UNCHANGED q_result
    /\ UNCHANGED <<q_concurrency, q_engine_last, q_last, q_synced, q_applied,
                   q_sched>>

\* Some((seq_no, Err(e))): the download is started again; when nothing is
\* outstanding wait() yields None: `_ => return Err(BrokenQueue)`.
QResponseError ==
    /\ q_pc = "wait"
    /\ IF DOMAIN q_pending = {}
         THEN /\ q_pc' = "done"
              /\ q_result' = "BrokenQueue"
              /\ UNCHANGED q_pending
         ELSE /\ \E seq_no \in DOMAIN q_pending :
                   q_pending' = start_download(TakeResponse(q_pending, seq_no),
                                               seq_no)
              /\ q_pc' = "process"
              /\ UNCHANGED q_result
    /\ UNCHANGED <<q_queue, q_concurrency, q_engine_last, q_last, q_synced,
                   q_applied, q_sched, q_retry>>

(***************************************************************************)
(* sync (sync/mod.rs): the live sync loop over the archives stream.        *)
(*                                                                         *)
(* The ArchiveDownloader hands out the archive of its current position;    *)
(* accept() releases it to advance to the next slice.                      *)
(***************************************************************************)
\* Number of archive slices the stream of the live sync can hand out.
MaxLiveArchives == 6

VARIABLES
    l_pc,           \* "recv", "imported" or "done"
    l_pos,          \* slice the downloader hands out next (1, 2, ...)
    l_engine_last,  \* slices applied by the engine
    l_synced,       \* what engine.is_synced() answers
    l_import,       \* slice -> result of its last import_package
    l_accepted      \* slices whose archive.accept() was called

l_vars == <<l_pc, l_pos, l_engine_last, l_synced, l_import, l_accepted>>

\* archives_stream.recv(): the archive at the downloader's position.
ArchiveDownloader_recv(pos) == pos

\* archive.accept(): the downloader goes on to the next slice.
ArchiveDownloader_accept(pos) == pos + 1

LInit ==
    /\ l_pc = "recv"
    /\ l_pos = 1
    /\ l_engine_last = 0
    /\ l_synced = FALSE
    /\ l_import = Empty
    /\ l_accepted = {}

LIdle ==
    /\ l_pc = "idle"
    /\ l_pos = 1
    /\ l_engine_last = 0
    /\ l_synced = FALSE
    /\ l_import = Empty
    /\ l_accepted = {}

LSyncedChanges ==
    /\ l_pc \in {"recv", "imported"}
    /\ l_synced' = ~l_synced
    /\ UNCHANGED <<l_pc, l_pos, l_engine_last, l_import, l_accepted>>

\* recv() and import_package(engine, archive, &mc_block_id) returning Ok:
\* the mc blocks of the slice follow the last applied block.
LImportOk ==
    /\ l_pc = "recv"
    /\ l_pos <= MaxLiveArchives
    /\ LET a == ArchiveDownloader_recv(l_pos) IN
         /\ a <= l_engine_last + 1
         /\ l_engine_last' = IF a = l_engine_last + 1 THEN a ELSE l_engine_last
         /\ l_import' = (a :> "Ok") @@ l_import
    /\ l_pc' = "imported"
    /\ UNCHANGED <<l_pos, l_synced, l_accepted>>

\* ... or Err(e): the error is logged and the loop body goes on.
LImportErr ==
    /\ l_pc = "recv"
    /\ l_pos <= MaxLiveArchives
    /\ l_import' = (ArchiveDownloader_recv(l_pos) :> "Err") @@ l_import
    /\ l_pc' = "imported"
    /\ UNCHANGED <<l_pos, l_engine_last, l_synced, l_accepted>>

\* `if engine.is_synced()? { break; } else { archive.accept(); }`
LSyncedBreak ==
    /\ l_pc = "imported"
    /\ l_synced
    /\ l_pc' = "done"
    /\ UNCHANGED <<l_pos, l_engine_last, l_synced, l_import, l_accepted>>

LAccept ==
    /\ l_pc = "imported"
    /\ ~l_synced
    /\ l_accepted' = l_accepted \cup {l_pos}
    /\ l_pos' = ArchiveDownloader_accept(l_pos)
    /\ l_pc' = "recv"
    /\ UNCHANGED <<l_engine_last, l_synced, l_import>>

(***************************************************************************)
(* Background sync: download_archives and save_archive, in the variant of  *)
(* sync/mod.rs ("mod") and in the variant of sync.rs ("sync").             *)
(*                                                                         *)
(* An archive is given by the seq_no of its highest masterchain block, 0   *)
(* for an archive without masterchain blocks.  How the archive data        *)
(* reaches the loop (ArchiveDownloader, download queue) is modelled by     *)
(* SpecQ; here an archive simply arrives.                                  *)
(***************************************************************************)
\* Largest masterchain seq_no of an archive of the background sync.
MaxBgSeqNo == 4

\* Number of archives the background sync is handed.
MaxBgArchives == 3

VARIABLES
    bg_variant,     \* "mod" or "sync"
    bg_high,        \* high_seqno / high_id
    bg_pc,          \* "loop" or "done"
    bg_cursor,      \* seq_no of the persisted low key block, 0 = none
    bg_saved,       \* per archive save_archive finished: its highest mc
                    \* seq_no, 0 for an archive without mc blocks
    bg_result       \* "running", "Ok" or "Err"

bg_vars == <<bg_variant, bg_high, bg_pc, bg_cursor, bg_saved, bg_result>>

\* sync/mod.rs: `if highest_id.seq_no >= context.high_seqno { Done }`
save_archive_done_mod(highest, high) == highest >= high

\* sync.rs: `Ok(max_id.seq_no > high_id)`
save_archive_done_sync(highest, high) == highest > high

save_archive_done(variant, highest, high) ==
    IF variant = "mod" THEN save_archive_done_mod(highest, high)
                       ELSE save_archive_done_sync(highest, high)

BgInit ==
    /\ bg_variant \in {"mod", "sync"}
    /\ bg_high \in 1..MaxBgSeqNo
    /\ bg_pc = "loop"
    /\ bg_cursor = 0
    /\ bg_saved = << >>
    /\ bg_result = "running"

BgIdle ==
    /\ bg_variant = "mod"
    /\ bg_high = 1
    /\ bg_pc = "idle"
    /\ bg_cursor = 0
    /\ bg_saved = << >>
    /\ bg_result = "idle"

\* highest mc seq_no of the last saved archive that has mc blocks, 0 if none
BgLastSaved ==
    LET nz == { i \in 1..Len(bg_saved) : bg_saved[i] # 0 }
    IN IF nz = {} THEN 0 ELSE bg_saved[Max(nz)]

\* save_archive on an archive without masterchain blocks: sync/mod.rs
\* answers NoBlocksInArchive (the loop accepts the archive and goes on);
\* sync.rs fails with "No blocks" like any other failure of save_archive.
BgSaveEmpty ==
    /\ bg_pc = "loop"
    /\ bg_variant = "mod"
    /\ Len(bg_saved) < MaxBgArchives
    /\ bg_saved' = Append(bg_saved, 0)
    /\ UNCHANGED <<bg_variant, bg_high, bg_pc, bg_cursor, bg_result>>

\* save_archive fails before the cursor is stored.  sync/mod.rs: `?` ends
\* download_archives.  sync.rs: `?` for an archive taken from the queue,
\* a log line and a new download for an archive taken from a response.
BgSaveFails ==
    /\ bg_pc = "loop"
    /\ \/ bg_pc' = "done" /\ bg_result' = "Err"
       \/ bg_variant = "sync" /\ UNCHANGED <<bg_pc, bg_result>>
    /\ UNCHANGED <<bg_variant, bg_high, bg_cursor, bg_saved>>

\* save_archive saves the blocks, persists the highest mc id and tells
\* whether the sync is done.
BgSaveArchive ==
    /\ bg_pc = "loop"
    /\ Len(bg_saved) < MaxBgArchives
    /\ \E highest \in (BgLastSaved + 1)..MaxBgSeqNo :
         /\ bg_cursor' = highest
         /\ bg_saved' = Append(bg_saved, highest)
         /\ IF save_archive_done(bg_variant, highest, bg_high)
              THEN bg_pc' = "done" /\ bg_result' = "Ok"
              ELSE UNCHANGED <<bg_pc, bg_result>>
    /\ UNCHANGED <<bg_variant, bg_high>>

(***************************************************************************)
(* ShardStateReplaceTransaction: process_packet and finalize.              *)
(*                                                                         *)
(* The BoC stream is the header, cell_count cells and, with has_crc, the   *)
(* CRC.  A stored cell record is modelled by its descriptor byte (the      *)
(* number of references) followed by one byte per reference index          *)
(* (ref_size = 1); the data bytes are left out.  The cells file is the     *)
(* sequence of bytes process_packet writes: every record followed by one   *)
(* byte holding its length, every chunk followed by its length as u32 LE.  *)
(***************************************************************************)
\* Largest header.cell_count.
MaxCells == 2

\* Largest number of references of a cell.
MaxRefs == 1

VARIABLES
    rt_cell_count,  \* header.cell_count of the BoC being streamed
    rt_has_crc,     \* header.has_crc
    rt_avail,       \* stream items (header, cells, crc) not yet consumed
    rt_sent,        \* stream items handed to process_packet so far
    rt_header,      \* self.header is Some
    rt_cells_read,  \* self.cells_read
    rt_crc_read,    \* the reader has consumed the CRC (history)
    rt_file,        \* the cells file
    rt_written,     \* the records appended to the cells file (history)
    rt_read,        \* index and bytes of the records finalize read (history)
    rt_returned,    \* last process_packet result: "none", "true", "false"
    rt_pc,          \* "ingest", "chunk", "cell" or "done"
    rt_file_pos,    \* file_pos of finalize
    rt_cell_index,  \* cell_index of finalize
    rt_chunk_size,  \* chunk_size of finalize
    rt_chunk,       \* chunk_buffer of finalize
    rt_hashes,      \* indices of the rows written to the hashes file
    rt_visit,       \* the cell finalize handled last
    rt_result       \* "running", "Ok" or the error returned by finalize

rt_vars == <<rt_cell_count, rt_has_crc, rt_avail, rt_sent, rt_header,
             rt_cells_read, rt_crc_read, rt_file, rt_written, rt_returned, rt_pc,
             rt_file_pos, rt_cell_index, rt_chunk_size, rt_chunk, rt_hashes,
             rt_visit, rt_read, rt_result>>

\* Reference lists a streamed cell can carry: every index of the BoC and
\* the first index beyond it.
RefLists ==
    UNION { [1..n -> 0..MaxCells] : n \in 0..MaxRefs }

\* The record ShardStatePacketReader::read_cell leaves in the buffer.
StoredCell(refs) == <<Len(refs)>> \o refs

\* `cells_file.write_u32_le(chunk_size)`
U32Le(n) ==
    <<n % 256, (n \div 256) % 256, (n \div 65536) % 256, n \div 16777216>>

\* `u32::from_le_bytes(tail)`
FromU32Le(b) == b[1] + 256 * b[2] + 65536 * b[3] + 16777216 * b[4]

RECURSIVE WriteCells(_)
\* the records of one packet, each followed by its length byte
WriteCells(cells) ==
    IF cells = << >> THEN << >>
    ELSE LET rec == StoredCell(Head(cells))
         IN rec \o <<Len(rec)>> \o WriteCells(Tail(cells))

NoVisit == [index |-> -1, refs |-> << >>, unwritten |-> {}, parsed |-> FALSE]

RtInit ==
    /\ rt_cell_count \in 1..MaxCells
    /\ rt_has_crc \in BOOLEAN
    /\ rt_avail = 0
    /\ rt_sent = 0
    /\ rt_header = FALSE
    /\ rt_cells_read = 0
    /\ rt_crc_read = FALSE
    /\ rt_file = << >>
    /\ rt_written = << >>
    /\ rt_read = << >>
    /\ rt_returned = "none"
    /\ rt_pc = "ingest"
    /\ rt_file_pos = 0
    /\ rt_cell_index = 0
    /\ rt_chunk_size = 0
    /\ rt_chunk = << >>
    /\ rt_hashes = {}
    /\ rt_visit = NoVisit
    /\ rt_result = "running"

RtIdle ==
    /\ rt_cell_count = 1
    /\ rt_has_crc = FALSE
    /\ rt_avail = 0
    /\ rt_sent = 0
    /\ rt_header = FALSE
    /\ rt_cells_read = 0
    /\ rt_crc_read = FALSE
    /\ rt_file = << >>
    /\ rt_written = << >>
    /\ rt_read = << >>
    /\ rt_returned = "none"
    /\ rt_pc = "idle"
    /\ rt_file_pos = 0
    /\ rt_cell_index = 0
    /\ rt_chunk_size = 0
    /\ rt_chunk = << >>
    /\ rt_hashes = {}
    /\ rt_visit = NoVisit
    /\ rt_result = "idle"

\* Items of the whole stream: header, cells, CRC.
StreamItems == 1 + rt_cell_count + (IF rt_has_crc THEN 1 ELSE 0)

\* ShardStatePacketReader::read_crc: the four CRC bytes are taken from the
\* bytes the reader holds; without them the answer is None ("need more
\* bytes").
read_crc(avail) == avail >= 1

\* process_packet with a packet that completes k further stream items.
\* The reader yields the header, then cells, then the CRC, as far as the
\* bytes received reach.
RtProcessPacket ==
    /\ rt_pc = "ingest"
    /\ \E k \in 0..(StreamItems - rt_sent) :
       LET avail0  == rt_avail + k
           hdr     == rt_header \/ avail0 >= 1
           avail1  == IF ~rt_header /\ hdr THEN avail0 - 1 ELSE avail0
           ncells  == IF ~hdr THEN 0
                      ELSE IF avail1 < rt_cell_count - rt_cells_read
                             THEN avail1
                             ELSE rt_cell_count - rt_cells_read
           avail2  == avail1 - ncells
           allread == hdr /\ rt_cells_read + ncells = rt_cell_count
           \* `header.has_crc && self.reader.read_crc()?.is_none()`:
           \* read_crc is called by every call that finds all cells read
           crc     == allread /\ rt_has_crc /\ read_crc(avail2)
       IN /\ rt_sent' = rt_sent + k
          /\ rt_header' = hdr
          /\ rt_cells_read' = rt_cells_read + ncells
          /\ \E cells \in [1..ncells -> RefLists] :
               LET bytes == WriteCells(cells) IN
               \* `if chunk_size > 0 { write_u32_le(chunk_size) }`
               /\ rt_file' = IF Len(bytes) > 0
                               THEN rt_file \o bytes \o U32Le(Len(bytes))
                               ELSE rt_file
               /\ rt_written' = rt_written \o [i \in 1..ncells |-> StoredCell(cells[i])]
          /\ rt_crc_read' = (rt_crc_read \/ crc)
          /\ rt_avail' = IF crc THEN avail2 - 1 ELSE avail2
          /\ rt_returned' = IF allread /\ (rt_has_crc => crc)
                             THEN "true" ELSE "false"
    /\ UNCHANGED <<rt_cell_count, rt_has_crc, rt_pc, rt_file_pos,
                   rt_cell_index, rt_chunk_size, rt_chunk, rt_hashes,
                   rt_visit, rt_read, rt_result>>

\* finalize up to the first chunk: the header must be there.
RtFinalizeStart ==
    /\ rt_pc = "ingest"
    /\ rt_returned # "none"
    /\ IF ~rt_header
         THEN /\ rt_pc' = "done"
              /\ rt_result' = "InvalidShardStatePacket"
              /\ UNCHANGED <<rt_file_pos, rt_cell_index>>
         ELSE /\ rt_pc' = "chunk"
              /\ rt_file_pos' = Len(rt_file)
              /\ rt_cell_index' = rt_cell_count
              /\ UNCHANGED rt_result
    /\ UNCHANGED <<rt_cell_count, rt_has_crc, rt_avail, rt_sent, rt_header,
                   rt_cells_read, rt_crc_read, rt_file, rt_written, rt_returned,
                   rt_chunk_size, rt_chunk, rt_hashes, rt_visit, rt_read>>

\* `while file_pos >= 4`: the chunk length is read, then the chunk.
RtReadChunk ==
    /\ rt_pc = "chunk"
    /\ rt_file_pos >= 4
    /\ LET pos  == rt_file_pos - 4
           size == FromU32Le(SubSeq(rt_file, pos + 1, pos + 4))
       IN /\ rt_chunk_size' = size
          /\ rt_file_pos' = pos - size
          /\ rt_chunk' = SubSeq(rt_file, pos - size + 1, pos)
    /\ rt_pc' = "cell"
    /\ UNCHANGED <<rt_cell_count, rt_has_crc, rt_avail, rt_sent, rt_header,
                   rt_cells_read, rt_crc_read, rt_file, rt_written, rt_returned,
                   rt_cell_index, rt_hashes, rt_visit, rt_read, rt_result>>

\* RawCell::from_stored_data(record, ref_size, cell_count, cell_index, ..):
\* the reference indices of the record, or InvalidCell for a reference that
\* is not above cell_index or not below cell_count.
from_stored_data(record, cell_count, cell_index) ==
    LET refs == SubSeq(record, 2, 1 + record[1]) IN
    IF \A r \in 1..Len(refs) : cell_index < refs[r] /\ refs[r] < cell_count
      THEN [ok |-> TRUE, reference_indices |-> refs]
      ELSE [ok |-> FALSE, reference_indices |-> refs]

\* The row of the hashes file written for the cell:
\* `hashes_file.write_all_at(cell_index * HashesEntry::LEN, ..)`
HashesRow_Next(cell_index) == cell_index + 1

HashesRow(cell_index) == cell_index

\* `cell_index -= 1` for every record peeled off the chunk
PrevCellIndex_Kept(cell_index) == cell_index

PrevCellIndex(cell_index) == cell_index - 1

\* One iteration of `while chunk_size > 0`: the last record of the chunk is
\* parsed, the rows of its references are read, finalize_cell computes the
\* row of the cell, the row is written.
RtFinalizeCell ==
    /\ rt_pc = "cell"
    /\ rt_chunk_size > 0
    /\ LET index     == PrevCellIndex(rt_cell_index)
           cell_size == rt_chunk[rt_chunk_size]
           size      == rt_chunk_size - (cell_size + 1)
           cell      == from_stored_data(
                            SubSeq(rt_chunk, size + 1, size + cell_size),
                            rt_cell_count, index)
           refs      == cell.reference_indices
           visit     == [index |-> index, refs |-> refs, parsed |-> cell.ok,
                         unwritten |-> { refs[r] : r \in 1..Len(refs) }
                                          \ rt_hashes]
       IN /\ rt_cell_index' = index
          /\ rt_chunk_size' = size
          /\ rt_visit' = visit
          /\ rt_read' = Append(rt_read,
                 [index |-> index,
                  record |-> SubSeq(rt_chunk, size + 1, size + cell_size)])
          /\ IF ~cell.ok
               THEN /\ rt_pc' = "done"
                    /\ rt_result' = "InvalidCell"
                    /\ UNCHANGED <<rt_hashes, rt_chunk>>
               ELSE \/ \* finalize_cell fails: level mask, cell type, depth
                       /\ rt_pc' = "done"
                       /\ rt_result' = "InvalidCell"
                       /\ UNCHANGED <<rt_hashes, rt_chunk>>
                    \/ /\ rt_hashes' = rt_hashes \cup {HashesRow(index)}
                       /\ rt_chunk' = SubSeq(rt_chunk, 1, size)
                       /\ UNCHANGED <<rt_pc, rt_result>>
    /\ UNCHANGED <<rt_cell_count, rt_has_crc, rt_avail, rt_sent, rt_header,
                   rt_cells_read, rt_crc_read, rt_file, rt_written, rt_returned,
                   rt_file_pos>>

\* The chunk is used up: back to `while file_pos >= 4`.
RtChunkDone ==
    /\ rt_pc = "cell"
    /\ rt_chunk_size = 0
    /\ rt_pc' = "chunk"
    /\ UNCHANGED <<rt_cell_count, rt_has_crc, rt_avail, rt_sent, rt_header,
                   rt_cells_read, rt_crc_read, rt_file, rt_written, rt_returned,
                   rt_file_pos, rt_cell_index, rt_chunk_size, rt_chunk,
                   rt_hashes, rt_visit, rt_read, rt_result>>

\* The file is used up: the batch is written, the root hash is stored and
\* the root cell is loaded.
RtFinish ==
    /\ rt_pc = "chunk"
    /\ rt_file_pos < 4
    /\ rt_pc' = "done"
    /\ rt_result' = "Ok"
    /\ UNCHANGED <<rt_cell_count, rt_has_crc, rt_avail, rt_sent, rt_header,
                   rt_cells_read, rt_crc_read, rt_file, rt_written, rt_returned,
                   rt_file_pos, rt_cell_index, rt_chunk_size, rt_chunk,
                   rt_hashes, rt_visit, rt_read>>

(***************************************************************************)
(* BlockIndexDb: add_handle and get_block_by_seq_no.                       *)
(*                                                                         *)
(* A shard is a workchain and the bits of its prefix; the account prefix   *)
(* of a lookup is a workchain and MaxSplitDepth bits.  The tables are sets *)
(* of rows: at most one LtDesc row per shard, at most one Lt row per       *)
(* (shard, index).                                                         *)
(***************************************************************************)
\* Depth of the shard tree the lookup walks (`0..=MAX_SPLIT_DEPTH`).
MaxSplitDepth == 2

\* Largest seq_no of a block handle.
MaxBiSeqNo == 2

\* Number of add_handle calls of a run.
MaxBiAdds == 2

\* Number of block ids handed to one gc call.
MaxGcIds == 2

VARIABLES
    bi_lt_desc,  \* rows of the LtDesc table
    bi_lt,       \* rows of the Lt table
    bi_calls,    \* number of add_handle calls made
    bi_last,     \* the last add_handle call: handle, result, index given
    bi_lookup,   \* the last lookup: arguments and result
    bi_gc,       \* the gc call: ids and result
    bi_pc        \* "run", "looked", "collected" or "idle"

bi_vars == <<bi_lt_desc, bi_lt, bi_calls, bi_last, bi_lookup, bi_gc, bi_pc>>

MASTERCHAIN_ID == -1

BitSeqs(n) == [1..n -> {0, 1}]

\* Shards blocks are added for: the masterchain and every shard of the
\* base workchain down to MaxSplitDepth.
\* Account prefixes looked up: the leftmost and the rightmost account of
\* the masterchain and of the base workchain.
AccountPrefixes ==
    { [wc |-> w, bits |-> [i \in 1..MaxSplitDepth |-> b]] :
        w \in {MASTERCHAIN_ID, 0}, b \in {0, 1} }

\* Shards blocks are added for: the masterchain and every shard of the
\* base workchain that contains one of these accounts.
Shards ==
    { [wc |-> MASTERCHAIN_ID, bits |-> << >>] }
    \cup { [wc |-> 0, bits |-> SubSeq(a.bits, 1, n)] :
             a \in AccountPrefixes, n \in 0..MaxSplitDepth }

\* Two blocks can have the same shard and seq_no: they differ in root hash
\* and generation times.
RootHashes == {1, 2}

Handles ==
    { [shard |-> sh, seq_no |-> n, root_hash |-> h, gen_lt |-> h, gen_utime |-> h] :
        sh \in Shards, n \in 1..MaxBiSeqNo, h \in RootHashes }

NoAdd ==
    [handle |-> [shard |-> [wc |-> 0, bits |-> << >>], seq_no |-> 0,
                 root_hash |-> 0, gen_lt |-> 0, gen_utime |-> 0],
     result |-> "none", index |-> 0]

NoGc == [ids |-> << >>, result |-> "none"]

NoLookup ==
    [account_prefix |-> [wc |-> 0, bits |-> << >>], seq_no |-> 0,
     result |-> "none", block |-> {}]

\* `ShardIdent::with_prefix_len(prefix_len, workchain_id, prefix)`
with_prefix_len(prefix_len, account_prefix) ==
    [wc |-> account_prefix.wc, bits |-> SubSeq(account_prefix.bits, 1, prefix_len)]

\* `LtDescDb::try_load_lt_desc`: the rows of the shard (none or one)
try_load_lt_desc(table, shard) == { d \in table : d.shard = shard }

\* `LtDb::load`
LtDb_load(table, shard, index) ==
    { e \in table : e.shard = shard /\ e.index = index }

\* `LtDb::store`: the row of the key is replaced
LtDb_store(table, row) ==
    { e \in table : ~(e.shard = row.shard /\ e.index = row.index) } \cup {row}

\* `LtDescDb::store_lt_desc`
store_lt_desc(table, row) ==
    { d \in table : d.shard # row.shard } \cup {row}

\* `handle.id().seq_no.cmp(&desc.last_seq_no)`
Cmp(a, b) == IF a = b THEN "Equal" ELSE IF a < b THEN "Less" ELSE "Greater"

\* The index add_handle gives to a block that follows the last one.
NextIndex_Same(desc) == desc.last_index

NextIndex(desc) == desc.last_index + 1

\* The outcome of `seq_no.cmp(&desc.last_seq_no)` on which add_handle
\* refuses the block.
RefusedOrder_None(ord) == FALSE

RefusedOrder(ord) == ord = "Less"

\* The outcome on which add_handle returns Ok without writing.
NoopOrder_None(ord) == FALSE

NoopOrder(ord) == ord = "Equal"

BiInit ==
    /\ bi_lt_desc = {}
    /\ bi_lt = {}
    /\ bi_calls = 0
    /\ bi_last = NoAdd
    /\ bi_lookup = NoLookup
    /\ bi_gc = NoGc
    /\ bi_pc = "run"

BiIdle ==
    /\ bi_lt_desc = {}
    /\ bi_lt = {}
    /\ bi_calls = 0
    /\ bi_last = NoAdd
    /\ bi_lookup = NoLookup
    /\ bi_gc = NoGc
    /\ bi_pc = "idle"

\* What add_handle does with the tables and what it returns.
add_handle(lt_desc, lt, handle) ==
    LET found == try_load_lt_desc(lt_desc, handle.shard)
        desc  == CHOOSE d \in found : TRUE
        ord   == Cmp(handle.seq_no, desc.last_seq_no)
        index == IF found = {} THEN 1 ELSE NextIndex(desc)
        unchanged(res) == [lt_desc |-> lt_desc, lt |-> lt, result |-> res, index |-> 0]
    IN IF found # {} /\ NoopOrder(ord) THEN unchanged("Ok")
       ELSE IF found # {} /\ RefusedOrder(ord) THEN unchanged("AscendingOrderRequired")
       ELSE [lt |-> LtDb_store(lt, [shard |-> handle.shard, index |-> index,
                                    seq_no |-> handle.seq_no,
                                    root_hash |-> handle.root_hash,
                                    gen_lt |-> handle.gen_lt,
                                    gen_utime |-> handle.gen_utime]),
             lt_desc |-> store_lt_desc(lt_desc,
                                   [shard |-> handle.shard, first_index |-> 1,
                                    last_index |-> index,
                                    last_seq_no |-> handle.seq_no,
                                    last_lt |-> handle.gen_lt,
                                    last_utime |-> handle.gen_utime]),
             result |-> "Ok", index |-> index]

\* add_handle, the whole call under the LtDesc write lock.
BiAddHandle ==
    /\ bi_pc = "run"
    /\ bi_calls < MaxBiAdds
    /\ \E handle \in Handles :
         LET r == add_handle(bi_lt_desc, bi_lt, handle) IN
         /\ bi_lt_desc' = r.lt_desc
         /\ bi_lt' = r.lt
         /\ bi_last' = [handle |-> handle, result |-> r.result,
                        index |-> r.index]
    /\ bi_calls' = bi_calls + 1
    /\ UNCHANGED <<bi_lookup, bi_gc, bi_pc>>

RECURSIVE GcLoop(_, _, _, _, _)
\* `for id in ids { .. }` of gc from the k-th id on and the two writes that
\* follow the loop: the keys queued for deletion are lt_db_tx (shard and
\* index) and lt_desc_tx (shards); the tables are read as they were when
\* the call began.
GcLoop(lt_desc, lt, ids, k, tx) ==
    IF k > Len(ids)
      THEN [lt_desc |-> { d \in lt_desc : d.shard \notin tx.lt_desc_tx },
            lt |-> { e \in lt : <<e.shard, e.index>> \notin tx.lt_db_tx },
            result |-> "Ok"]
    ELSE
    LET id    == ids[k]
        found == try_load_lt_desc(lt_desc, id.shard)
        desc  == CHOOSE d \in found : TRUE
        ord   == Cmp(id.seq_no, desc.last_seq_no)
        index == IF found = {} THEN 1 ELSE desc.last_index + 1
    IN IF found # {} /\ ord = "Equal"
         THEN [lt_desc |-> lt_desc, lt |-> lt, result |-> "Ok"]
       ELSE IF found # {} /\ ord = "Less"
         THEN [lt_desc |-> lt_desc, lt |-> lt, result |-> "AscendingOrderRequired"]
       ELSE GcLoop(lt_desc, lt, ids, k + 1,
                   [lt_db_tx |-> tx.lt_db_tx \cup {<<id.shard, index>>},
                    lt_desc_tx |-> tx.lt_desc_tx \cup {id.shard}])

\* What gc does with the tables and what it returns.
gc(lt_desc, lt, ids) ==
    GcLoop(lt_desc, lt, ids, 1, [lt_db_tx |-> {}, lt_desc_tx |-> {}])

\* Block ids handed to gc: those of the shards that have blocks and those
\* of the masterchain.
GcIds(lt_desc) ==
    { h \in Handles :
        \/ h.shard.wc = MASTERCHAIN_ID
        \/ try_load_lt_desc(lt_desc, h.shard) # {} }

\* gc, the whole call under the LtDesc write lock.
BiGc ==
    /\ bi_pc = "run"
    /\ \E n \in 1..MaxGcIds :
         \E ids \in [1..n -> GcIds(bi_lt_desc)] :
           LET r == gc(bi_lt_desc, bi_lt, ids) IN
           /\ bi_lt_desc' = r.lt_desc
           /\ bi_lt' = r.lt
           /\ bi_gc' = [ids |-> ids, result |-> r.result]
    /\ bi_pc' = "collected"
    /\ UNCHANGED <<bi_calls, bi_last, bi_lookup>>

\* The values `compare_lt_desc` and `compare_lt_entry` compare the target
\* with: seq_no, gen_lt or gen_utime.
DescKey(kind, desc) ==
    IF kind = "seq_no" THEN desc.last_seq_no
    ELSE IF kind = "lt" THEN desc.last_lt ELSE desc.last_utime

EntryKey(kind, entry) ==
    IF kind = "seq_no" THEN entry.seq_no
    ELSE IF kind = "lt" THEN entry.gen_lt ELSE entry.gen_utime

\* The end of the binary search of a LtDesc: `last_index = lt_desc.last_index + 1`
SearchEnd_Beyond(desc) == desc.last_index + 2

SearchEnd(desc) == desc.last_index + 1

RECURSIVE BinarySearch(_, _, _, _, _, _, _, _, _)
\* `while last_index > first_index { .. }` of get_block: the block found
\* (ret), the bounds first_block_id and last_block_id, a load that failed.
BinarySearch(lt, shard, kind, target, first_index, last_index, previous_index, first_block_id, last_block_id) ==
    LET index == first_index + (last_index - first_index) \div 2
        stop  == [ret |-> {}, first |-> first_block_id,
                  last |-> last_block_id, err |-> FALSE]
    IN IF ~(last_index > first_index) \/ index = previous_index THEN stop
       ELSE LET rows == LtDb_load(lt, shard, index) IN
            IF rows = {} THEN [stop EXCEPT !.err = TRUE]
            ELSE LET entry == CHOOSE e \in rows : TRUE
                     ord   == Cmp(target, EntryKey(kind, entry))
                 IN IF ord = "Equal" THEN [stop EXCEPT !.ret = {entry}]
                    ELSE IF ord = "Less"
                      THEN BinarySearch(lt, shard, kind, target, first_index,
                                        index, index, first_block_id, {entry})
                      ELSE BinarySearch(lt, shard, kind, target, index,
                                        last_index, index, {entry},
                                        last_block_id)

\* `None if found => break`
StopsAtMissing_Never(found) == FALSE

StopsAtMissing(found) == found

RECURSIVE ScanShards(_, _, _, _, _, _, _, _, _, _)
\* `for prefix_len in 0..=MAX_SPLIT_DEPTH { .. }` of get_block and what
\* follows the loop.
ScanShards(lt_desc, lt, account_prefix, kind, target, exact, prefix_len, found, result, index_range_begin) ==
    LET after == IF result # {} /\ ~exact
                   THEN [result |-> "Ok", block |-> result]
                   ELSE [result |-> "BlockNotFound", block |-> {}]
        shard == with_prefix_len(prefix_len, account_prefix)
        descs == try_load_lt_desc(lt_desc, shard)
        next(f, r, b) == ScanShards(lt_desc, lt, account_prefix, kind, target,
                                    exact, prefix_len + 1, f, r, b)
    IN IF prefix_len > MaxSplitDepth THEN after
       ELSE IF descs = {}
         THEN IF StopsAtMissing(found) THEN after
              ELSE IF shard.wc = MASTERCHAIN_ID
                THEN [result |-> "BlockNotFound", block |-> {}]
                ELSE next(found, result, index_range_begin)
       ELSE LET desc == CHOOSE d \in descs : TRUE IN
            IF Cmp(target, DescKey(kind, desc)) = "Greater"
              THEN next(TRUE, result, index_range_begin)
              ELSE LET srch == BinarySearch(lt, shard, kind, target,
                                            desc.first_index,
                                            SearchEnd(desc), -1, {}, {})
                       last == CHOOSE e \in srch.last : TRUE
                       first == CHOOSE e \in srch.first : TRUE
                       old  == CHOOSE e \in result : TRUE
                       res  == IF srch.last = {} THEN result
                               ELSE IF result = {} THEN srch.last
                               ELSE IF old.seq_no > last.seq_no
                                 THEN srch.last ELSE result
                       begin == IF srch.first # {}
                                   /\ index_range_begin < first.seq_no
                                  THEN first.seq_no ELSE index_range_begin
                       best == CHOOSE e \in res : TRUE
                   IN IF srch.err
                        THEN [result |-> "LtDbEntryNotFound", block |-> {}]
                      ELSE IF srch.ret # {}
                        THEN [result |-> "Ok", block |-> srch.ret]
                      ELSE IF res # {} /\ best.seq_no = begin + 1
                        THEN IF exact
                               THEN [result |-> "BlockNotFound", block |-> {}]
                               ELSE [result |-> "Ok", block |-> res]
                      ELSE next(TRUE, res, begin)

get_block(lt_desc, lt, account_prefix, kind, target, exact) ==
    ScanShards(lt_desc, lt, account_prefix, kind, target, exact, 0, FALSE,
               {}, 0)

get_block_by_seq_no(lt_desc, lt, account_prefix, seq_no) ==
    get_block(lt_desc, lt, account_prefix, "seq_no", seq_no, TRUE)

\* A lookup by seq_no on the tables as they are.
BiGetBlockBySeqNo ==
    /\ bi_pc = "run"
    /\ \E account_prefix \in AccountPrefixes, seq_no \in 1..MaxBiSeqNo :
         LET r == get_block_by_seq_no(bi_lt_desc, bi_lt, account_prefix, seq_no)
         IN bi_lookup' = [account_prefix |-> account_prefix, seq_no |-> seq_no,
                          result |-> r.result, block |-> r.block]
    /\ bi_pc' = "looked"
    /\ UNCHANGED <<bi_lt_desc, bi_lt, bi_calls, bi_last, bi_gc>>

\* Lookups by logical time and by unix time over one indexed shard.
\* Largest seq_no of a block of that shard.
MaxLkSeqNo == 4

\* gen_lt and gen_utime of the block of a seq_no: both grow with seq_no.
LkLt(seq_no) == 10 * seq_no

LkUtime(seq_no) == 100 + 3 * seq_no

LkHandle(shard, seq_no) ==
    [shard |-> shard, seq_no |-> seq_no, root_hash |-> 1,
     gen_lt |-> LkLt(seq_no), gen_utime |-> LkUtime(seq_no)]

\* Targets of a lookup: every time of a block, and times before, between
\* and after them.
LkTargets(kind) ==
    IF kind = "lt" THEN { 5 * n : n \in 1..(2 * MaxLkSeqNo + 1) }
    ELSE { 100 + n : n \in 2..(3 * MaxLkSeqNo + 1) }

RECURSIVE AddHandles(_, _, _, _)
\* add_handle for the blocks of `seq_nos` of a shard, in ascending order
AddHandles(lt_desc, lt, shard, seq_nos) ==
    IF seq_nos = {} THEN [lt_desc |-> lt_desc, lt |-> lt]
    ELSE LET n == Min(seq_nos)
             r == add_handle(lt_desc, lt, LkHandle(shard, n))
         IN AddHandles(r.lt_desc, r.lt, shard, seq_nos \ {n})

LkInit ==
    /\ bi_calls = 0
    /\ bi_last = NoAdd
    /\ bi_lookup = NoLookup
    /\ bi_gc = NoGc
    /\ bi_pc = "run"
    /\ \E shard \in Shards, seq_nos \in (SUBSET (1..MaxLkSeqNo)) \ {{}} :
         LET t == AddHandles({}, {}, shard, seq_nos) IN
         /\ bi_lt_desc = t.lt_desc
         /\ bi_lt = t.lt

get_block_by_utime(lt_desc, lt, account_prefix, utime) ==
    get_block(lt_desc, lt, account_prefix, "utime", utime, FALSE)

get_block_by_lt_Exact(lt_desc, lt, account_prefix, lt_target) ==
    get_block(lt_desc, lt, account_prefix, "lt", lt_target, TRUE)

get_block_by_lt(lt_desc, lt, account_prefix, lt_target) ==
    get_block(lt_desc, lt, account_prefix, "lt", lt_target, FALSE)

\* A lookup by logical time on the tables as they are.
BiGetBlockByLt ==
    /\ bi_pc = "run"
    /\ \E account_prefix \in AccountPrefixes, target \in LkTargets("lt") :
         LET r == get_block_by_lt(bi_lt_desc, bi_lt, account_prefix, target)
         IN bi_lookup' = [account_prefix |-> account_prefix, kind |-> "lt",
                          target |-> target, result |-> r.result, block |-> r.block]
    /\ bi_pc' = "looked"
    /\ UNCHANGED <<bi_lt_desc, bi_lt, bi_calls, bi_last, bi_gc>>

\* A lookup by unix time on the tables as they are.
BiGetBlockByUtime ==
    /\ bi_pc = "run"
    /\ \E account_prefix \in AccountPrefixes, target \in LkTargets("utime") :
         LET r == get_block_by_utime(bi_lt_desc, bi_lt, account_prefix, target)
         IN bi_lookup' = [account_prefix |-> account_prefix, kind |-> "utime",
                          target |-> target, result |-> r.result, block |-> r.block]
    /\ bi_pc' = "looked"
    /\ UNCHANGED <<bi_lt_desc, bi_lt, bi_calls, bi_last, bi_gc>>


(***************************************************************************)
(* BlockIndexDb under concurrency: add_handle calls of two threads and one *)
(* get_block of a third.                                                   *)
(*                                                                         *)
(* add_handle holds the write lock of lt_desc_db from its first statement  *)
(* to its return; get_block takes the read lock for each                   *)
(* try_load_lt_desc and reads the Lt table without a lock.  A step is one  *)
(* access to a table.  The blocks added are those of the shards the        *)
(* lookup can visit; their gen_lt and gen_utime are their seq_no.          *)
(***************************************************************************)
VARIABLES
    bc_lt_desc,  \* rows of the LtDesc table
    bc_lt,       \* rows of the Lt table
    bc_lock,     \* the thread that holds the write lock of lt_desc_db, or 0
    bc_w,        \* per writer: pc, handle, index, result
    bc_r,        \* the reader: arguments, loop variables, result
    bc_seen,     \* the LtDesc rows the reader has loaded
    bc_lost      \* the Lt rows a store has replaced

bc_vars == <<bc_lt_desc, bc_lt, bc_lock, bc_w, bc_r, bc_seen, bc_lost>>

Writers == {1, 2}

LookupKinds == {"seq_no", "lt"}

\* The shards get_block visits for an account prefix.
LookupShards(account_prefix) ==
    { with_prefix_len(n, account_prefix) :
        n \in (IF account_prefix.wc = MASTERCHAIN_ID THEN {0} ELSE 0..MaxSplitDepth) }

BcHandles(account_prefix) ==
    { [shard |-> sh, seq_no |-> n, root_hash |-> 1, gen_lt |-> n, gen_utime |-> n] :
        sh \in LookupShards(account_prefix), n \in 1..MaxBiSeqNo }

NoWriter == [pc |-> "start", handle |-> NoAdd.handle, index |-> 0, result |-> "none"]

\* The reader before its first step.
NewReader(account_prefix, kind, target) ==
    [pc |-> "desc", account_prefix |-> account_prefix, kind |-> kind,
     target |-> target, exact |-> kind = "seq_no", prefix_len |-> 0,
     found |-> FALSE, result |-> 0, index_range_begin |-> 0,
     first_index |-> 0, last_index |-> 0, previous_index |-> -1,
     first_block_id |-> 0, last_block_id |-> 0, ret |-> "running"]

BcInit ==
    /\ bc_lt_desc = {}
    /\ bc_lt = {}
    /\ bc_lock = 0
    /\ bc_w = [w \in Writers |-> NoWriter]
    /\ \E account_prefix \in AccountPrefixes, kind \in LookupKinds,
          target \in 1..MaxBiSeqNo :
         bc_r = NewReader(account_prefix, kind, target)
    /\ bc_seen = {}
    /\ bc_lost = {}

BcIdle ==
    /\ bc_lt_desc = {}
    /\ bc_lt = {}
    /\ bc_lock = 0
    /\ bc_w = [w \in Writers |-> [NoWriter EXCEPT !.pc = "idle"]]
    /\ bc_r = [NewReader([wc |-> 0, bits |-> << >>], "seq_no", 0) EXCEPT !.pc = "idle"]
    /\ bc_seen = {}
    /\ bc_lost = {}

\* `self.lt_desc_db.write()` returns when no thread holds the lock.
WriteLockFree_Always(lock) == TRUE

WriteLockFree(lock) == lock = 0

\* add_handle up to the match on the LtDesc of the shard: the write lock is
\* taken, the LtDesc is loaded and the index is chosen, or the call returns
\* (and drops the lock).
BcAddBegin(w) ==
    /\ bc_w[w].pc = "start"
    /\ WriteLockFree(bc_lock)
    /\ \E handle \in BcHandles(bc_r.account_prefix) :
         LET found == try_load_lt_desc(bc_lt_desc, handle.shard)
             desc  == CHOOSE d \in found : TRUE
             ord   == Cmp(handle.seq_no, desc.last_seq_no)
         IN IF found # {} /\ NoopOrder(ord)
              THEN /\ bc_w' = [bc_w EXCEPT ![w] = [pc |-> "done", handle |-> handle,
                                                  index |-> 0, result |-> "Ok"]]
                   /\ bc_lock' = 0
            ELSE IF found # {} /\ RefusedOrder(ord)
              THEN /\ bc_w' = [bc_w EXCEPT ![w] =
                                 [pc |-> "done", handle |-> handle, index |-> 0,
                                  result |-> "AscendingOrderRequired"]]
                   /\ bc_lock' = 0
            ELSE /\ bc_w' = [bc_w EXCEPT ![w] =
                               [pc |-> "lt", handle |-> handle,
                                index |-> IF found = {} THEN 1 ELSE NextIndex(desc),
                                result |-> "none"]]
                 /\ bc_lock' = w
    /\ UNCHANGED <<bc_lt_desc, bc_lt, bc_r, bc_seen, bc_lost>>

\* `self.lt_db.store(LtDbKey { shard_ident, index }, ..)`
BcStoreLt(w) ==
    /\ bc_w[w].pc = "lt"
    /\ LET h == bc_w[w].handle IN
       /\ bc_lost' = bc_lost \cup LtDb_load(bc_lt, h.shard, bc_w[w].index)
       /\ bc_lt' = LtDb_store(bc_lt, [shard |-> h.shard, index |-> bc_w[w].index,
                                      seq_no |-> h.seq_no, root_hash |-> h.root_hash,
                                      gen_lt |-> h.gen_lt, gen_utime |-> h.gen_utime])
    /\ bc_w' = [bc_w EXCEPT ![w].pc = "desc"]
    /\ UNCHANGED <<bc_lt_desc, bc_lock, bc_r, bc_seen>>

\* `lt_desc_db.store_lt_desc(..)` and the return, which drops the lock
BcStoreDesc(w) ==
    /\ bc_w[w].pc = "desc"
    /\ LET h == bc_w[w].handle IN
       bc_lt_desc' = store_lt_desc(bc_lt_desc,
                        [shard |-> h.shard, first_index |-> 1,
                         last_index |-> bc_w[w].index, last_seq_no |-> h.seq_no,
                         last_lt |-> h.gen_lt, last_utime |-> h.gen_utime])
    /\ bc_w' = [bc_w EXCEPT ![w].pc = "done", ![w].result = "Ok"]
    /\ bc_lock' = IF bc_lock = w THEN 0 ELSE bc_lock
    /\ UNCHANGED <<bc_lt, bc_r, bc_seen, bc_lost>>

\* get_block after the loop over the prefix lengths
ReaderAfter(r) ==
    [r EXCEPT !.pc = "done",
              !.ret = IF r.result # 0 /\ ~r.exact THEN "Ok" ELSE "BlockNotFound"]

\* `continue`: the next prefix length, or the end of the loop
ReaderContinue(r) ==
    IF r.prefix_len + 1 > MaxSplitDepth \/ r.account_prefix.wc = MASTERCHAIN_ID
      THEN ReaderAfter(r)
      ELSE [r EXCEPT !.pc = "desc", !.prefix_len = @ + 1]

\* One iteration of the loop over the prefix lengths up to the binary
\* search: `self.lt_desc_db.read().try_load_lt_desc(..)` and the match.
BcReadDesc ==
    /\ bc_r.pc = "desc"
    /\ bc_lock = 0
    /\ LET shard == with_prefix_len(bc_r.prefix_len, bc_r.account_prefix)
           descs == try_load_lt_desc(bc_lt_desc, shard)
           desc  == CHOOSE d \in descs : TRUE
       IN /\ bc_seen' = bc_seen \cup descs
          /\ bc_r' =
               IF descs = {}
                 THEN IF StopsAtMissing(bc_r.found) THEN ReaderAfter(bc_r)
                      ELSE IF shard.wc = MASTERCHAIN_ID
                        THEN [bc_r EXCEPT !.pc = "done", !.ret = "BlockNotFound"]
                        ELSE ReaderContinue(bc_r)
               ELSE IF Cmp(bc_r.target, DescKey(bc_r.kind, desc)) = "Greater"
                 THEN ReaderContinue([bc_r EXCEPT !.found = TRUE])
               ELSE [bc_r EXCEPT !.pc = "search", !.found = TRUE,
                                 !.first_index = desc.first_index,
                                 !.last_index = SearchEnd(desc),
                                 !.previous_index = -1,
                                 !.first_block_id = 0, !.last_block_id = 0]
    /\ UNCHANGED <<bc_lt_desc, bc_lt, bc_lock, bc_w, bc_lost>>

\* What follows the binary search in the loop body.
ReaderSearched(r) ==
    LET res   == IF r.last_block_id = 0 THEN r.result
                 ELSE IF r.result = 0 THEN r.last_block_id
                 ELSE IF r.result > r.last_block_id THEN r.last_block_id
                 ELSE r.result
        begin == IF r.first_block_id # 0 /\ r.index_range_begin < r.first_block_id
                   THEN r.first_block_id ELSE r.index_range_begin
        r2    == [r EXCEPT !.result = res, !.index_range_begin = begin,
                           !.first_index = 0, !.last_index = 0,
                           !.previous_index = -1,
                           !.first_block_id = 0, !.last_block_id = 0]
    IN IF res # 0 /\ res = begin + 1
         THEN [r2 EXCEPT !.pc = "done",
                         !.ret = IF r.exact THEN "BlockNotFound" ELSE "Ok"]
         ELSE ReaderContinue(r2)

\* One iteration of `while last_index > first_index`, with its
\* `self.lt_db.load(..)`, or the exit of the loop.
BcSearchStep ==
    /\ bc_r.pc = "search"
    /\ LET index == bc_r.first_index + (bc_r.last_index - bc_r.first_index) \div 2
           shard == with_prefix_len(bc_r.prefix_len, bc_r.account_prefix)
           rows  == LtDb_load(bc_lt, shard, index)
           entry == CHOOSE e \in rows : TRUE
           ord   == Cmp(bc_r.target, EntryKey(bc_r.kind, entry))
       IN bc_r' =
            IF ~(bc_r.last_index > bc_r.first_index) \/ index = bc_r.previous_index
              THEN ReaderSearched(bc_r)
            ELSE IF rows = {}
              THEN [bc_r EXCEPT !.pc = "done", !.ret = "LtDbEntryNotFound"]
            ELSE IF ord = "Equal"
              THEN [bc_r EXCEPT !.pc = "done", !.ret = "Ok", !.result = entry.seq_no]
            ELSE IF ord = "Less"
              THEN [bc_r EXCEPT !.previous_index = index,
                                !.last_block_id = entry.seq_no,
                                !.last_index = index]
            ELSE [bc_r EXCEPT !.previous_index = index,
                              !.first_block_id = entry.seq_no,
                              !.first_index = index]
    /\ UNCHANGED <<bc_lt_desc, bc_lt, bc_lock, bc_w, bc_seen, bc_lost>>

(***************************************************************************)
(* ShardStateReplaceTransaction::finalize with the content of the cells.   *)
(*                                                                         *)
(* The backward pass over a cells file that holds all cell_count records.  *)
(* A record is a cell: type, level mask, data and reference indices.  The  *)
(* data of an exotic cell is its type byte, followed for a pruned branch   *)
(* by the depth it stores for level 0; other data is left out.  A chunk is *)
(* the number of records one process_packet call wrote.                    *)
(* A hash is the sequence of values the hasher absorbed, so two hashes are *)
(* equal exactly when their inputs are.  The records are                   *)
(* revealed as the pass reads them; a second transaction on the same       *)
(* stream reads the records the first one read, in chunks of its own.      *)
(***************************************************************************)
\* `const CELLS_PER_BATCH: u64 = 1_000_000`, scaled down.
CELLS_PER_BATCH == 1

\* `ton_types::MAX_DEPTH`
MAX_DEPTH == 60

\* the number of values of a u16, the type of a depth
U16 == 65536

VARIABLES
    fz_cell_count,   \* header.cell_count
    fz_marker,       \* self.marker
    fz_run,          \* 1: first transaction, 2: second one on the same input
    fz_stream,       \* the records read so far, last record of the BoC first
    fz_wraps,        \* build of the program: "unknown", "wrap" or "panic"
    fz_pc,           \* "chunk", "cell", "done" or "idle"
    fz_unread,       \* records of the cells file below file_pos
    fz_chunk_size,   \* records left in chunk_buffer
    fz_cell_index,   \* cell_index
    fz_batch_len,    \* batch_len
    fz_batch,        \* ctx.write_batch: the (key, value) pairs queued
    fz_db,           \* the cells column: the (key, value) pairs written
    fz_entries,      \* the hashes file: cell index -> HashesEntry
    fz_pruned,       \* ctx.pruned_branches: cell index -> data
    fz_visit,        \* the cell handled last and what became of it
    fz_root,         \* the root hash stored under the shard state key
    fz_first,        \* what the first transaction left in the storage
    fz_result        \* "running", "Ok" or the error

fz_vars == <<fz_cell_count, fz_marker, fz_run, fz_stream, fz_wraps, fz_pc,
             fz_unread, fz_chunk_size, fz_cell_index, fz_batch_len, fz_batch,
             fz_db, fz_entries, fz_pruned, fz_visit, fz_root, fz_first,
             fz_result>>

\* `self.marker: u8`
Markers == {0, 1}

\* ton_types::CellType (MerkleUpdate is handled as MerkleProof is)
CellTypes ==
    {"Ordinary", "PrunedBranch", "LibraryReference", "MerkleProof", "Unknown"}

\* `cell.cell_type.to_u8()`
to_u8(cell_type) ==
    CASE cell_type = "Unknown" -> 0
      [] cell_type = "PrunedBranch" -> 1
      [] cell_type = "LibraryReference" -> 2
      [] cell_type = "MerkleProof" -> 3
      [] OTHER -> 255

\* Level masks of the records.
LevelMasks == {0, 1}

\* Depths a pruned branch can store in its data (u16).
PrunedDepths == {MAX_DEPTH - 1, MAX_DEPTH, U16 - 1}

\* The records a BoC can hold at one index.
RawCells ==
    { [cell_type |-> t, level_mask |-> m,
       data |-> IF t = "Ordinary" THEN << >> ELSE <<to_u8(t)>>,
       reference_indices |-> r] :
        t \in CellTypes \ {"PrunedBranch"}, m \in LevelMasks, r \in RefLists }
    \cup
    { [cell_type |-> "PrunedBranch", level_mask |-> m,
       data |-> <<to_u8("PrunedBranch"), d>>, reference_indices |-> r] :
        m \in LevelMasks, d \in PrunedDepths, r \in RefLists }

\* `LevelMask::level`: the number of bits set
Level(mask) == (mask % 2) + ((mask \div 2) % 2) + ((mask \div 4) % 2)

\* `LevelMask::with_level(i).mask()`
with_level(i) == CASE i = 0 -> 0 [] i = 1 -> 1 [] i = 2 -> 3 [] OTHER -> 7

\* `LevelMask::for_merkle_cell(children_mask).mask()`
for_merkle_cell(mask) == mask \div 2

\* `children_mask |= child.level_mask()` for masks of three bits
MaskOr(a, b) ==
    Max({a % 2, b % 2}) + 2 * Max({(a \div 2) % 2, (b \div 2) % 2})
      + 4 * Max({(a \div 4) % 2, (b \div 4) % 2})

\* `LevelMask::calc_hash_index(n)`: the bits set below level n
calc_hash_index(mask, n) == Level(mask % (with_level(n) + 1))

\* A row of the hashes file after `current_entry.clear()`.
EmptyEntry ==
    [cell_type |-> "Unknown", level_mask |-> 0,
     hashes |-> << << >>, << >>, << >>, << >> >>, depths |-> <<0, 0, 0, 0>>]

\* `HashesEntry::depth(n)` and `HashesEntry::hash(n)`
EntryDepth(entry, n) == entry.depths[calc_hash_index(entry.level_mask, n) + 1]

EntryHash(entry, n) == entry.hashes[calc_hash_index(entry.level_mask, n) + 1]

\* `HashesEntry::pruned_branch_depth(n, data)`: the depth of the data for
\* a level below the level of the pruned branch, its own depth otherwise
pruned_branch_depth(entry, n, data) ==
    IF calc_hash_index(entry.level_mask, n) = Level(entry.level_mask)
      THEN entry.depths[1]
      ELSE data[2]

\* `HashesEntry::pruned_branch_hash(n, data)`: the hash of the data for a
\* level below the level of the pruned branch, its own hash otherwise
pruned_branch_hash(entry, n, data) ==
    IF calc_hash_index(entry.level_mask, n) = Level(entry.level_mask)
      THEN entry.hashes[1]
      ELSE <<254, calc_hash_index(entry.level_mask, n)>> \o data

RECURSIVE Flat(_)
\* the hashes of a list, one after the other, each behind its length
Flat(hashes) ==
    IF hashes = << >> THEN << >>
    ELSE <<Len(Head(hashes))>> \o Head(hashes) \o Flat(Tail(hashes))

\* `child_depth` of the loop over the children at level i
ChildDepth(entries, pruned_branches, index, i, is_merkle_cell) ==
    IF entries[index].cell_type = "PrunedBranch"
      THEN pruned_branch_depth(entries[index], i, pruned_branches[index])
      ELSE EntryDepth(entries[index], IF is_merkle_cell THEN i + 1 ELSE i)

\* `child_hash` of the second loop over the children at level i
ChildHash(entries, pruned_branches, index, i, is_merkle_cell) ==
    IF entries[index].cell_type = "PrunedBranch"
      THEN pruned_branch_hash(entries[index], i, pruned_branches[index])
      ELSE EntryHash(entries[index], IF is_merkle_cell THEN i + 1 ELSE i)

RECURSIVE MaxDepths(_, _, _, _)
\* `*depth = max(*depth, child_depth + 1); if *depth > MAX_DEPTH { Err }`
\* over the children, in u16: the sum overflows for child_depth = 65535,
\* which panics or wraps to 0 as the build has it.
MaxDepths(child_depths, k, depth, wraps) ==
    IF k > Len(child_depths)
      THEN [status |-> "ok", depth |-> depth, overflow |-> FALSE]
    ELSE IF child_depths[k] + 1 >= U16 /\ ~wraps
      THEN [status |-> "Panic", depth |-> depth, overflow |-> TRUE]
    ELSE LET next == Max({depth, (child_depths[k] + 1) % U16}) IN
         IF next > MAX_DEPTH
           THEN [status |-> "InvalidCell", depth |-> next, overflow |-> FALSE]
           ELSE LET rest == MaxDepths(child_depths, k + 1, next, wraps) IN
                [rest EXCEPT !.overflow = @ \/ child_depths[k] + 1 >= U16]

\* First bytes of the value: `[self.marker, cell.cell_type.to_u8()]`
OutputHead_NoMarker(marker, cell_type) == <<to_u8(cell_type)>>

OutputHead(marker, cell_type) == <<marker, to_u8(cell_type)>>

\* The key `ctx.pruned_branches.insert(cell_index, ..)` files the data of
\* a pruned branch under.
PrunedKey_InChunk(cell_index, chunk_size) == chunk_size

PrunedKey_FromChunkEnd(cell_index, chunk_size) == cell_index + chunk_size - 1

PrunedKey(cell_index, chunk_size) == cell_index

RECURSIVE LevelHashes(_, _, _, _, _, _, _, _)
\* `for i in 0..hash_count { .. }` of finalize_cell from level i on: the
\* entry with the hashes and depths of the levels, or the error.
LevelHashes(cell, entries, pruned_branches, entry, i, hash_count, is_merkle_cell, wraps) ==
    IF i >= hash_count
      THEN [status |-> "ok", entry |-> entry, overflow |-> FALSE]
    ELSE
    LET refs   == cell.reference_indices
        is_pruned_cell == cell.cell_type = "PrunedBranch"
        mask   == IF is_pruned_cell THEN entry.level_mask ELSE with_level(i)
        \* calculate_descriptor_bytes(bit_len, refs, mask, exotic, false)
        descr  == <<Len(refs), mask,
                    IF cell.cell_type # "Ordinary" THEN 1 ELSE 0>>
        body   == IF i = 0 THEN cell.data ELSE entry.hashes[i]
        depths == [k \in 1..Len(refs) |->
                     ChildDepth(entries, pruned_branches, refs[k], i,
                                is_merkle_cell)]
        hashes == [k \in 1..Len(refs) |->
                     ChildHash(entries, pruned_branches, refs[k], i,
                               is_merkle_cell)]
        max    == MaxDepths(depths, 1, 0, wraps)
        hash   == descr \o <<Len(body)>> \o body \o depths \o Flat(hashes)
        filled == [entry EXCEPT
                     !.depths[i + 1] = IF refs = << >> THEN @ ELSE max.depth,
                     !.hashes[i + 1] = hash]
    IN IF max.status # "ok"
         THEN [status |-> max.status, entry |-> entry, overflow |-> max.overflow]
         ELSE LET rest == LevelHashes(cell, entries, pruned_branches, filled,
                                      i + 1, hash_count, is_merkle_cell, wraps)
              IN [rest EXCEPT !.overflow = @ \/ max.overflow]

RECURSIVE ChildrenMask(_, _, _)
\* `children_mask |= child.level_mask()` over the first k children
ChildrenMask(entries, refs, k) ==
    IF k = 0 THEN 0
    ELSE MaskOr(ChildrenMask(entries, refs, k - 1), entries[refs[k]].level_mask)

\* finalize_cell: the entry of the cell, the (key, value) pair queued and
\* the data kept for a pruned branch, or the error.
finalize_cell(marker, cell, cell_index, chunk_size, entries, pruned_branches, wraps) ==
    LET refs == cell.reference_indices
        children_mask == ChildrenMask(entries, refs, Len(refs))
        is_pruned_cell == cell.cell_type = "PrunedBranch"
        is_merkle_cell == cell.cell_type = "MerkleProof"
        level_mask ==
            CASE cell.cell_type = "Ordinary" -> children_mask
              [] cell.cell_type = "PrunedBranch" -> cell.level_mask
              [] cell.cell_type = "LibraryReference" -> 0
              [] OTHER -> for_merkle_cell(children_mask)
        hash_count == IF is_pruned_cell THEN 1 ELSE Level(level_mask) + 1
        start  == [EmptyEntry EXCEPT !.level_mask = level_mask,
                                     !.cell_type = cell.cell_type]
        levels == LevelHashes(cell, entries, pruned_branches, start, 0,
                              hash_count, is_merkle_cell, wraps)
        entry  == levels.entry
        value  == OutputHead(marker, cell.cell_type)
                    \o cell.data
                    \o <<cell.level_mask, 0, 1, hash_count>>
                    \o Flat(SubSeq(entry.hashes, 1, hash_count))
                    \o <<1, hash_count>>
                    \o SubSeq(entry.depths, 1, hash_count)
                    \o <<Len(refs)>>
                    \o Flat([k \in 1..Len(refs) |-> EntryHash(entries[refs[k]], 3)])
        key    == IF is_pruned_cell
                    THEN pruned_branch_hash(entry, 3, cell.data)
                    ELSE EntryHash(entry, 3)
        fail(status, overflow) ==
            [status |-> status, overflow |-> overflow, entry |-> EmptyEntry,
             key |-> << >>, value |-> << >>, pruned_branches |-> pruned_branches]
    IN IF cell.cell_type = "Unknown" THEN fail("InvalidCell", FALSE)
       ELSE IF cell.level_mask # level_mask THEN fail("InvalidCell", FALSE)
       ELSE IF \E k \in 1..Len(refs) :
                  /\ entries[refs[k]].cell_type = "PrunedBranch"
                  /\ refs[k] \notin DOMAIN pruned_branches
         THEN fail("InvalidCell", FALSE)
       ELSE IF levels.status # "ok" THEN fail(levels.status, levels.overflow)
       ELSE [status |-> "ok", overflow |-> levels.overflow, entry |-> entry,
             key |-> key, value |-> value,
             pruned_branches |->
                IF is_pruned_cell
                  THEN LET at == PrunedKey(cell_index, chunk_size) IN
                       [k \in DOMAIN pruned_branches \cup {at} |->
                          IF k = at THEN cell.data ELSE pruned_branches[k]]
                  ELSE pruned_branches]

RECURSIVE WriteBatch(_, _)
\* `db.write_opt(batch)`: the pairs are put in the order they were queued
WriteBatch(db, batch) ==
    IF batch = << >> THEN db
    ELSE WriteBatch({ row \in db : row.key # Head(batch).key } \cup {Head(batch)},
                    Tail(batch))

\* `if batch_len > CELLS_PER_BATCH` after a chunk
FlushDue(batch_len) == batch_len > CELLS_PER_BATCH

\* `if batch_len > 0` after the last chunk
FlushRest_WhenDue(batch_len) == batch_len > CELLS_PER_BATCH

FlushRest(batch_len) == batch_len > 0

NoFzVisit ==
    [index |-> -1, status |-> "none",
     cell |-> [cell_type |-> "Unknown", level_mask |-> 0, data |-> << >>,
               reference_indices |-> << >>]]

NoStorage == [db |-> {}, root |-> << >>]

FzStart ==
    /\ fz_pc = "chunk"
    /\ fz_unread = fz_cell_count
    /\ fz_chunk_size = 0
    /\ fz_cell_index = fz_cell_count
    /\ fz_batch_len = 0
    /\ fz_batch = << >>
    /\ fz_db = {}
    /\ fz_entries = << >>
    /\ fz_pruned = << >>
    /\ fz_visit = NoFzVisit
    /\ fz_root = << >>
    /\ fz_result = "running"

FzInit ==
    /\ fz_cell_count \in 1..MaxCells
    /\ fz_marker \in Markers
    /\ fz_run = 1
    /\ fz_stream = << >>
    /\ fz_wraps = "unknown"
    /\ fz_first = NoStorage
    /\ FzStart

FzIdle ==
    /\ fz_cell_count = 1
    /\ fz_marker = 0
    /\ fz_run = 1
    /\ fz_stream = << >>
    /\ fz_wraps = "unknown"
    /\ fz_first = NoStorage
    /\ fz_pc = "idle"
    /\ fz_unread = 0
    /\ fz_chunk_size = 0
    /\ fz_cell_index = 0
    /\ fz_batch_len = 0
    /\ fz_batch = << >>
    /\ fz_db = {}
    /\ fz_entries = << >>
    /\ fz_pruned = << >>
    /\ fz_visit = NoFzVisit
    /\ fz_root = << >>
    /\ fz_result = "idle"

\* `while file_pos >= 4`: the chunk one process_packet call wrote is read.
FzReadChunk ==
    /\ fz_pc = "chunk"
    /\ fz_unread > 0
    /\ \E size \in 1..fz_unread :
         /\ fz_chunk_size' = size
         /\ fz_unread' = fz_unread - size
    /\ fz_pc' = "cell"
    /\ UNCHANGED <<fz_cell_count, fz_marker, fz_run, fz_stream, fz_wraps,
                   fz_cell_index, fz_batch_len, fz_batch, fz_db, fz_entries,
                   fz_pruned, fz_visit, fz_root, fz_first, fz_result>>

\* One iteration of `while chunk_size > 0`: the record is parsed, the rows
\* of its references are read, finalize_cell queues the cell and the row of
\* the cell is written.
FzFinalizeCell ==
    /\ fz_pc = "cell"
    /\ fz_chunk_size > 0
    /\ LET index == PrevCellIndex(fz_cell_index)
           at    == fz_cell_count - index
       IN \E cell \in (IF at <= Len(fz_stream) THEN {fz_stream[at]} ELSE RawCells),
             build \in (IF fz_wraps = "unknown" THEN {"wrap", "panic"}
                        ELSE {fz_wraps}) :
            LET parsed == from_stored_data(StoredCell(cell.reference_indices),
                                           fz_cell_count, index)
                done   == finalize_cell(fz_marker, cell, index, fz_chunk_size,
                                        fz_entries, fz_pruned, build = "wrap")
                failed(status) ==
                    /\ fz_pc' = "done"
                    /\ fz_result' = status
                    /\ fz_visit' = [index |-> index, cell |-> cell,
                                    status |-> status]
                    /\ UNCHANGED <<fz_batch, fz_entries, fz_pruned,
                                   fz_chunk_size>>
            IN /\ fz_cell_index' = index
               /\ fz_batch_len' = fz_batch_len + 1
               /\ fz_stream' = IF at <= Len(fz_stream) THEN fz_stream
                               ELSE Append(fz_stream, cell)
               /\ IF ~parsed.ok
                    THEN failed("InvalidCell") /\ UNCHANGED fz_wraps
                  ELSE /\ fz_wraps' = IF done.overflow THEN build ELSE fz_wraps
                       /\ IF done.status # "ok" THEN failed(done.status)
                          ELSE /\ fz_batch' = Append(fz_batch,
                                                     [key |-> done.key,
                                                      value |-> done.value])
                               /\ fz_pruned' = done.pruned_branches
                               /\ fz_entries' =
                                     [k \in DOMAIN fz_entries \cup {HashesRow(index)}
                                        |-> IF k = HashesRow(index) THEN done.entry
                                            ELSE fz_entries[k]]
                               /\ fz_chunk_size' = fz_chunk_size - 1
                               /\ fz_visit' = [index |-> index, cell |-> cell,
                                               status |-> "queued"]
                               /\ UNCHANGED <<fz_pc, fz_result>>
    /\ UNCHANGED <<fz_cell_count, fz_marker, fz_run, fz_unread, fz_db,
                   fz_root, fz_first>>

\* The chunk is used up: the batch is written when it is due.
FzChunkDone ==
    /\ fz_pc = "cell"
    /\ fz_chunk_size = 0
    /\ IF FlushDue(fz_batch_len)
         THEN /\ fz_db' = WriteBatch(fz_db, fz_batch)
              /\ fz_batch' = << >>
              /\ fz_batch_len' = 0
         ELSE UNCHANGED <<fz_db, fz_batch, fz_batch_len>>
    /\ fz_pc' = "chunk"
    /\ UNCHANGED <<fz_cell_count, fz_marker, fz_run, fz_stream, fz_wraps,
                   fz_unread, fz_chunk_size, fz_cell_index, fz_entries,
                   fz_pruned, fz_visit, fz_root, fz_first, fz_result>>

\* The file is used up: the rest of the batch is written, the hash of the
\* current entry is stored as the root and the root cell is loaded.
FzFinish ==
    /\ fz_pc = "chunk"
    /\ fz_unread = 0
    /\ LET db   == IF FlushRest(fz_batch_len) THEN WriteBatch(fz_db, fz_batch)
                   ELSE fz_db
           root == EntryHash(fz_entries[fz_cell_index], 3)
       IN /\ fz_db' = db
          /\ fz_batch' = IF FlushRest(fz_batch_len) THEN << >> ELSE fz_batch
          /\ fz_root' = root
          /\ fz_result' = IF \E row \in db : row.key = root
                            THEN "Ok" ELSE "CellNotFound"
    /\ fz_pc' = "done"
    /\ UNCHANGED <<fz_cell_count, fz_marker, fz_run, fz_stream, fz_wraps,
                   fz_unread, fz_chunk_size, fz_cell_index, fz_batch_len,
                   fz_entries, fz_pruned, fz_visit, fz_first>>

\* A second transaction (`new` with the same marker) on the same stream.
FzSecondRun ==
    /\ fz_pc = "done"
    /\ fz_result = "Ok"
    /\ fz_run = 1
    /\ fz_run' = 2
    /\ fz_first' = [db |-> fz_db, root |-> fz_root]
    /\ fz_pc' = "chunk"
    /\ fz_unread' = fz_cell_count
    /\ fz_chunk_size' = 0
    /\ fz_cell_index' = fz_cell_count
    /\ fz_batch_len' = 0
    /\ fz_batch' = << >>
    /\ fz_db' = {}
    /\ fz_entries' = << >>
    /\ fz_pruned' = << >>
    /\ fz_visit' = NoFzVisit
    /\ fz_root' = << >>
    /\ fz_result' = "running"
    /\ UNCHANGED <<fz_cell_count, fz_marker, fz_stream, fz_wraps>>

(***************************************************************************)
(* BlockHandle: the masterchain ref seqno of a handle.                     *)
(*                                                                         *)
(* A handle is its id (masterchain or not, seq_no) and the ref seqno its   *)
(* meta stores, 0 while unset.                                             *)
(***************************************************************************)
\* Largest masterchain ref seqno handed to set_masterchain_ref_seqno.
MaxRefSeqno == 3

\* Number of set_masterchain_ref_seqno calls on the handle.
MaxBhCalls == 3

VARIABLES
    bh_id,      \* the id of the handle: is_masterchain, seq_no
    bh_meta,    \* meta.masterchain_ref_seqno
    bh_first,   \* the first non-zero value a call stored, 0 if none
    bh_last,    \* the last call: argument, stored value before, result
    bh_calls,   \* number of calls made
    bh_pc       \* "run" or "idle"

bh_vars == <<bh_id, bh_meta, bh_first, bh_last, bh_calls, bh_pc>>

NoSet == [arg |-> 0, before |-> 0, result |-> "none"]

\* `BlockMeta::set_masterchain_ref_seqno`: the value stored before and the
\* value stored after; a value that is set is kept.
BlockMeta_set_masterchain_ref_seqno(stored, masterchain_ref_seqno) ==
    [prev_seqno |-> stored,
     stored |-> IF stored = 0 THEN masterchain_ref_seqno ELSE stored]

\* The match of set_masterchain_ref_seqno on the value meta returns.
SetResult_RepeatFails(prev_seqno, masterchain_ref_seqno) ==
    IF prev_seqno = 0 THEN "Ok(true)" ELSE "RefSeqnoAlreadySet"

SetResult(prev_seqno, masterchain_ref_seqno) ==
    IF prev_seqno = 0 THEN "Ok(true)"
    ELSE IF prev_seqno = masterchain_ref_seqno THEN "Ok(false)"
    ELSE "RefSeqnoAlreadySet"

\* `BlockHandle::masterchain_ref_seqno`
masterchain_ref_seqno_OwnSeqno(id, meta) == id.seq_no

masterchain_ref_seqno(id, meta) ==
    IF id.is_masterchain THEN id.seq_no ELSE meta

BhInit ==
    /\ bh_id \in [is_masterchain : BOOLEAN, seq_no : 1..2]
    /\ bh_meta = 0
    /\ bh_first = 0
    /\ bh_last = NoSet
    /\ bh_calls = 0
    /\ bh_pc = "run"

BhIdle ==
    /\ bh_id = [is_masterchain |-> FALSE, seq_no |-> 1]
    /\ bh_meta = 0
    /\ bh_first = 0
    /\ bh_last = NoSet
    /\ bh_calls = 0
    /\ bh_pc = "idle"

\* `BlockHandle::set_masterchain_ref_seqno`
BhSetMasterchainRefSeqno ==
    /\ bh_pc = "run"
    /\ bh_calls < MaxBhCalls
    /\ \E v \in 0..MaxRefSeqno :
         LET m == BlockMeta_set_masterchain_ref_seqno(bh_meta, v) IN
         /\ bh_meta' = m.stored
         /\ bh_first' = IF bh_first = 0 THEN m.stored ELSE bh_first
         /\ bh_last' = [arg |-> v, before |-> bh_meta,
                        result |-> SetResult(m.prev_seqno, v)]
    /\ bh_calls' = bh_calls + 1
    /\ UNCHANGED <<bh_id, bh_pc>>

(***************************************************************************)
(* Functions of their arguments: warm_boot, choose_key_block, the proof    *)
(* checks, the StoredValue encodings and archive_data_merge.               *)
(*                                                                         *)
(* A run is one call: fn_pc names the function that is about to be called  *)
(* on fn_args, and is "done" when fn_result holds what the call returned.  *)
(* What the engine, the network and the clock answer during the call is    *)
(* part of the arguments.                                                  *)
(***************************************************************************)
VARIABLES
    fn_pc,      \* the function to call, "done" or "idle"
    fn_args,    \* the arguments of the call
    fn_result   \* the result of the call

fn_vars == <<fn_pc, fn_args, fn_result>>

FnIdle ==
    /\ fn_pc = "idle"
    /\ fn_args = << >>
    /\ fn_result = << >>

\* Largest seq_no of a masterchain block id warm_boot is given or finds.
MaxWbSeqNo == 3

WbIds == [seq_no : 0..MaxWbSeqNo, root_hash : {1, 2}]

\* `engine.load_block_handle(..)`: an error, no handle, or a handle with
\* its is_key_block flag
WbHandles == {"Err", "None", "KeyBlock", "NotKeyBlock"}

\* `engine.load_state(..)` and `state.shard_state_extra()?.last_key_block`:
\* an error of either, or the last_key_block of the state (none, or the
\* master block id it points to)
WbStates ==
    { [load |-> "Err", last_key_block |-> {}],
      [load |-> "ExtraErr", last_key_block |-> {}] }
    \cup { [load |-> "Ok", last_key_block |-> k] :
             k \in {{}} \cup { {id} : id \in WbIds } }

\* The test that makes warm_boot walk to the last key block.
WalksToKeyBlock_Always(seq_no, is_key_block) == TRUE

WalksToKeyBlock(seq_no, is_key_block) == seq_no # 0 /\ ~is_key_block

warm_boot(block_id, handle, state) ==
    IF handle = "Err" THEN [status |-> "Err", id |-> block_id]
    ELSE IF handle = "None"
      THEN [status |-> "FailedToLoadInitialBlock", id |-> block_id]
    ELSE IF state.load = "Err" THEN [status |-> "Err", id |-> block_id]
    ELSE IF WalksToKeyBlock(block_id.seq_no, handle = "KeyBlock")
      THEN IF state.load = "ExtraErr"
             THEN [status |-> "Err", id |-> block_id]
           ELSE IF state.last_key_block = {}
             THEN [status |-> "MasterchainStateNotFound", id |-> block_id]
           ELSE [status |-> "Ok", id |-> CHOOSE k \in state.last_key_block : TRUE]
    ELSE [status |-> "Ok", id |-> block_id]

WbInit ==
    /\ fn_pc = "warm_boot"
    /\ fn_args \in [last_mc_block_id : WbIds, handle : WbHandles, state : WbStates]
    /\ fn_result = << >>

FnWarmBoot ==
    /\ fn_pc = "warm_boot"
    /\ fn_result' = warm_boot(fn_args.last_mc_block_id, fn_args.handle, fn_args.state)
    /\ fn_pc' = "done"
    /\ UNCHANGED fn_args

\* Largest seq_no of a previous key block a proof is checked against.
MaxPfSeqNo == 2

\* The arguments of a proof check: the block id the proof is for, the id of
\* the previous key block (seq_no 0: the zero state), whether the proof is
\* a proof link, what the check of the proof answers and the block ids the
\* engine reports as hard forks.
PfArgs ==
    [block_id : 1..(MaxPfSeqNo + 1), prev_key_block_id : 0..MaxPfSeqNo,
     is_link : BOOLEAN, check : {"Ok", "Err"},
     hard_forks : SUBSET (0..(MaxPfSeqNo + 1))]

\* One pass of the loop of download_key_block_proof for a proof that is not
\* in the db: the proof is stored, or the pass ends with a warning and the
\* download is tried again.
download_key_block_proof(a) ==
    LET result == IF a.prev_key_block_id = 0 THEN a.check  \* ZeroState
                  ELSE IF a.check = "Ok" THEN "Ok"
                  ELSE IF a.block_id \in a.hard_forks THEN "Ok" ELSE "Err"
    IN IF result = "Ok" THEN [status |-> "Ok", stored |-> TRUE]
       ELSE [status |-> "Retry", stored |-> FALSE]

\* save_block with a block, handles and proofs that load
save_block(a) ==
    LET result == IF a.is_link THEN a.check  \* check_proof_link
                  ELSE IF a.prev_key_block_id = 0 THEN a.check
                  ELSE IF a.check = "Ok" THEN "Ok"
                  ELSE IF a.prev_key_block_id \notin a.hard_forks THEN "Err"
                  ELSE "Ok"
    IN IF result = "Ok" THEN [status |-> "Ok", stored |-> TRUE]
       ELSE [status |-> "Err", stored |-> FALSE]

PfInit ==
    /\ fn_pc \in {"download_key_block_proof", "save_block"}
    /\ fn_args \in PfArgs
    /\ fn_pc = "download_key_block_proof" => ~fn_args.is_link
    /\ fn_args.prev_key_block_id < fn_args.block_id
    /\ fn_result = << >>

FnDownloadKeyBlockProof ==
    /\ fn_pc = "download_key_block_proof"
    /\ fn_result' = download_key_block_proof(fn_args)
    /\ fn_pc' = "done_boot"
    /\ UNCHANGED fn_args

FnSaveBlock ==
    /\ fn_pc = "save_block"
    /\ fn_result' = save_block(fn_args)
    /\ fn_pc' = "done_sync"
    /\ UNCHANGED fn_args

\* Largest number of key block handles handed to choose_key_block.
MaxKeyBlocks == 3

INTITAL_SYNC_TIME_SECONDS == 300

\* `i32::MAX`
I32_MAX == 2147483647

\* The seconds between two utime boundaries of persistent states.
PERSISTENT_STATE_PERIOD == 131072

\* `is_persistent_state(block_utime, prev_utime)`: a utime boundary lies
\* between the two blocks
is_persistent_state(block_utime, prev_utime) ==
    block_utime \div PERSISTENT_STATE_PERIOD # prev_utime \div PERSISTENT_STATE_PERIOD

\* gen_utime of a handle: unset, before and at a utime boundary, and less
\* than INTITAL_SYNC_TIME_SECONDS below i32::MAX
Utimes == {0, 100000, PERSISTENT_STATE_PERIOD, I32_MAX - 100}

\* What `now()` answers.
Nows == {100299, 100300, PERSISTENT_STATE_PERIOD + 300, I32_MAX}

\* The lists of key block handles get_key_blocks collects, oldest first: a
\* handle is its gen_utime, which does not decrease along the chain.
KeyBlockLists ==
    UNION { { l \in [1..n -> Utimes] : \A i \in 1..(n - 1) : l[i] <= l[i + 1] } :
              n \in 0..MaxKeyBlocks }

\* `handle_utime as i32 + INTITAL_SYNC_TIME_SECONDS` in i32: the sum, or
\* the value it wraps to when it exceeds i32::MAX
AddSyncTime(handle_utime) ==
    IF handle_utime <= I32_MAX - INTITAL_SYNC_TIME_SECONDS
      THEN handle_utime + INTITAL_SYNC_TIME_SECONDS
      ELSE (handle_utime - I32_MAX) + INTITAL_SYNC_TIME_SECONDS - I32_MAX - 2

\* `handle_utime as i32 + INTITAL_SYNC_TIME_SECONDS > now()`
TooNew_Never(handle_utime, now) == FALSE

TooNew(handle_utime, now) == AddSyncTime(handle_utime) > now

RECURSIVE choose_key_block(_, _, _)
\* `while let Some(handle) = key_blocks.pop() { .. }`: the position of the
\* handle returned, or the error.  The sum that exceeds i32::MAX panics or
\* wraps as the build has it.
choose_key_block(key_blocks, now, wraps) ==
    IF key_blocks = << >>
      THEN [status |-> "PersistentShardStateNotFound", handle |-> 0]
    ELSE
    LET n             == Len(key_blocks)
        handle_utime  == key_blocks[n]
        rest          == SubSeq(key_blocks, 1, n - 1)
        prev_utime    == IF rest = << >> THEN 0 ELSE rest[n - 1]
        is_persistent == prev_utime = 0 \/ is_persistent_state(handle_utime, prev_utime)
    IN IF ~is_persistent THEN choose_key_block(rest, now, wraps)
       ELSE IF handle_utime > I32_MAX - INTITAL_SYNC_TIME_SECONDS /\ ~wraps
         THEN [status |-> "Panic", handle |-> n]
       ELSE IF TooNew(handle_utime, now) THEN choose_key_block(rest, now, wraps)
       ELSE [status |-> "Ok", handle |-> n]

CkInit ==
    /\ fn_pc = "choose_key_block"
    /\ fn_args \in [key_blocks : KeyBlockLists, now : Nows]
    /\ fn_result = << >>

FnChooseKeyBlock ==
    /\ fn_pc = "choose_key_block"
    /\ \E wraps \in BOOLEAN :
         fn_result' = choose_key_block(fn_args.key_blocks, fn_args.now, wraps)
    /\ fn_pc' = "done"
    /\ UNCHANGED fn_args

\* A u64 is the sequence of its eight base-256 digits, the most significant
\* first; a hash is the sequence of its 32 bytes.
\* `u64::to_le_bytes` and `read_le_u64`
U64Le(digits) == [i \in 1..8 |-> digits[9 - i]]

FromU64Le(b) == [i \in 1..8 |-> b[9 - i]]

\* `i32::to_le_bytes`: the two's complement of a negative number
I32Le(n) ==
    IF n >= 0 THEN U32Le(n)
    ELSE [U32Le(n + I32_MAX + 1) EXCEPT ![4] = @ + 128]

\* `reader.read_le_u32()? as i32`
FromI32Le_BigEndian(b) ==
    IF b[1] < 128 THEN FromU32Le(<<b[4], b[3], b[2], b[1]>>)
    ELSE FromU32Le(<<b[4], b[3], b[2], b[1] - 128>>) - I32_MAX - 1

FromI32Le(b) ==
    IF b[4] < 128 THEN FromU32Le(b)
    ELSE FromU32Le([b EXCEPT ![4] = @ - 128]) - I32_MAX - 1

\* Values that are stored: shard prefixes with tag (the full shard, its two
\* halves and a quarter), workchains, seq_nos, hashes.
TaggedPrefixes ==
    { [i \in 1..8 |-> IF i = 1 THEN d ELSE 0] : d \in {128, 64, 192, 32} }

StoredShardIdents ==
    { [workchain_id |-> MASTERCHAIN_ID, prefix |-> [i \in 1..8 |-> IF i = 1 THEN 128 ELSE 0]] }
    \cup [workchain_id : {0, 1}, prefix : TaggedPrefixes]

StoredU32s == {0, 13, 258, I32_MAX}

StoredHashes == { [i \in 1..32 |-> (h * i) % 256] : h \in {1, 7} }

StoredBlockIds ==
    [shard_id : StoredShardIdents, seq_no : StoredU32s,
     root_hash : StoredHashes, file_hash : StoredHashes]

\* Bytes that follow a stored value in the reader.
StoredTails == {<< >>, <<7, 255>>}

\* `ShardIdent::with_tagged_prefix`: a prefix without its tag bit is refused
with_tagged_prefix(workchain_id, prefix) ==
    [ok |-> \E i \in 1..8 : prefix[i] # 0,
     value |-> [workchain_id |-> workchain_id, prefix |-> prefix]]

\* `impl StoredValue for ShardIdent`
ShardIdent_serialize(shard) == I32Le(shard.workchain_id) \o U64Le(shard.prefix)

ShardIdent_deserialize(bytes) ==
    IF Len(bytes) < 12 THEN [ok |-> FALSE, value |-> << >>, rest |-> << >>]
    ELSE LET r == with_tagged_prefix(FromI32Le(SubSeq(bytes, 1, 4)),
                                     FromU64Le(SubSeq(bytes, 5, 12)))
         IN [ok |-> r.ok, value |-> r.value, rest |-> SubSeq(bytes, 13, Len(bytes))]

\* `impl StoredValue for BlockIdExt`
BlockIdExt_serialize(id) ==
    ShardIdent_serialize(id.shard_id) \o U32Le(id.seq_no) \o id.root_hash \o id.file_hash

BlockIdExt_deserialize(bytes) ==
    LET s == ShardIdent_deserialize(bytes) IN
    IF ~s.ok \/ Len(s.rest) < 68 THEN [ok |-> FALSE, value |-> << >>, rest |-> << >>]
    ELSE [ok |-> TRUE,
          value |-> [shard_id |-> s.value, seq_no |-> FromU32Le(SubSeq(s.rest, 1, 4)),
                     root_hash |-> SubSeq(s.rest, 5, 36),
                     file_hash |-> SubSeq(s.rest, 37, 68)],
          rest |-> SubSeq(s.rest, 69, Len(s.rest))]

\* `LtDbKey::serialize` and `LtDbKeyOwned::deserialize`
LtDbKey_serialize(key) == ShardIdent_serialize(key.shard_ident) \o U32Le(key.index)

LtDbKeyOwned_deserialize(bytes) ==
    LET s == ShardIdent_deserialize(bytes) IN
    IF ~s.ok \/ Len(s.rest) < 4 THEN [ok |-> FALSE, value |-> << >>, rest |-> << >>]
    ELSE [ok |-> TRUE,
          value |-> [shard_ident |-> s.value, index |-> FromU32Le(SubSeq(s.rest, 1, 4))],
          rest |-> SubSeq(s.rest, 5, Len(s.rest))]

RECURSIVE TopBlocks_entries(_, _)
\* `for (shard, top_block) in &self.shard_heights { .. }` in the order the
\* map iterates
TopBlocks_entries(shard_heights, order) ==
    IF order = << >> THEN << >>
    ELSE ShardIdent_serialize(Head(order)) \o U32Le(shard_heights[Head(order)])
           \o TopBlocks_entries(shard_heights, Tail(order))

\* `impl StoredValue for TopBlocks`
TopBlocks_serialize(top_blocks, order) ==
    BlockIdExt_serialize(top_blocks.mc_block)
      \o U32Le(Cardinality(DOMAIN top_blocks.shard_heights))
      \o TopBlocks_entries(top_blocks.shard_heights, order)

RECURSIVE TopBlocks_read(_, _, _)
\* `for _ in 0..top_blocks_len { .. top_blocks.insert(shard, top_block) }`
TopBlocks_read(bytes, n, top_blocks) ==
    IF n = 0 THEN [ok |-> TRUE, value |-> top_blocks, rest |-> bytes]
    ELSE LET s == ShardIdent_deserialize(bytes) IN
         IF ~s.ok \/ Len(s.rest) < 4 THEN [ok |-> FALSE, value |-> << >>, rest |-> << >>]
         ELSE TopBlocks_read(SubSeq(s.rest, 5, Len(s.rest)), n - 1,
                             [k \in DOMAIN top_blocks \cup {s.value} |->
                                IF k = s.value THEN FromU32Le(SubSeq(s.rest, 1, 4))
                                ELSE top_blocks[k]])

TopBlocks_deserialize(bytes) ==
    LET id == BlockIdExt_deserialize(bytes) IN
    IF ~id.ok \/ Len(id.rest) < 4 THEN [ok |-> FALSE, value |-> << >>, rest |-> << >>]
    ELSE LET m == TopBlocks_read(SubSeq(id.rest, 5, Len(id.rest)),
                                 FromU32Le(SubSeq(id.rest, 1, 4)), << >>)
         IN [ok |-> m.ok,
             value |-> [mc_block |-> id.value, shard_heights |-> m.value],
             rest |-> m.rest]

\* The orders a map can iterate its keys in.
Orders(S) ==
    { o \in [1..Cardinality(S) -> S] : \A i, j \in 1..Cardinality(S) : o[i] = o[j] => i = j }

\* TopBlocks values: a masterchain block and the heights of some shards of
\* the base workchain
StoredTopBlocks ==
    LET shards == { s \in StoredShardIdents : s.workchain_id = 0 /\ s.prefix[1] # 32 }
        mc     == { id \in StoredBlockIds :
                      /\ id.shard_id.workchain_id = MASTERCHAIN_ID
                      /\ id.seq_no = 258 /\ id.file_hash = id.root_hash }
    IN UNION { [mc_block : mc, shard_heights : [S -> {1000, 1001}]] : S \in SUBSET shards }

SvInit ==
    /\ fn_result = << >>
    /\ \E tail \in StoredTails :
         \/ /\ fn_pc = "ShardIdent"
            /\ \E v \in StoredShardIdents : fn_args = [value |-> v, tail |-> tail]
         \/ /\ fn_pc = "BlockIdExt"
            /\ \E v \in StoredBlockIds : fn_args = [value |-> v, tail |-> tail]
         \/ /\ fn_pc = "LtDbKey"
            /\ \E s \in StoredShardIdents, n \in StoredU32s :
                 fn_args = [value |-> [shard_ident |-> s, index |-> n], tail |-> tail]
         \/ /\ fn_pc = "TopBlocks"
            /\ \E v \in StoredTopBlocks : fn_args = [value |-> v, tail |-> tail]

\* A value is serialized and the bytes, with what follows them, are
\* deserialized.
FnShardIdent ==
    /\ fn_pc = "ShardIdent"
    /\ LET bytes == ShardIdent_serialize(fn_args.value) IN
       fn_result' = [bytes |-> bytes,
                     read |-> ShardIdent_deserialize(bytes \o fn_args.tail)]
    /\ fn_pc' = "done"
    /\ UNCHANGED fn_args

FnBlockIdExt ==
    /\ fn_pc = "BlockIdExt"
    /\ LET bytes == BlockIdExt_serialize(fn_args.value) IN
       fn_result' = [bytes |-> bytes,
                     read |-> BlockIdExt_deserialize(bytes \o fn_args.tail)]
    /\ fn_pc' = "done"
    /\ UNCHANGED fn_args

FnLtDbKey ==
    /\ fn_pc = "LtDbKey"
    /\ LET bytes == LtDbKey_serialize(fn_args.value) IN
       fn_result' = [bytes |-> bytes,
                     read |-> LtDbKeyOwned_deserialize(bytes \o fn_args.tail)]
    /\ fn_pc' = "done"
    /\ UNCHANGED fn_args

FnTopBlocks ==
    /\ fn_pc = "TopBlocks"
    /\ \E order \in Orders(DOMAIN fn_args.value.shard_heights) :
         LET bytes == TopBlocks_serialize(fn_args.value, order) IN
         fn_result' = [bytes |-> bytes,
                       read |-> TopBlocks_deserialize(bytes \o fn_args.tail)]
    /\ fn_pc' = "done"
    /\ UNCHANGED fn_args

\* One key of the `archive_storage` column: the stored value, the merge
\* operands not yet folded into it, and every fragment merged so far.
MaxFragments == 4

\* `ARCHIVE_PREFIX`, the four bytes that open an archive package
ARCHIVE_PREFIX == <<1, 221, 143, 174>>

\* Fragments: with and without the prefix, empty, the bare prefix, a payload
\* that itself continues with the prefix bytes, a truncated prefix.
Fragments ==
    { << >>, <<5>>, <<1, 221>>, ARCHIVE_PREFIX, ARCHIVE_PREFIX \o <<5>>,
      ARCHIVE_PREFIX \o <<6, 7>>, ARCHIVE_PREFIX \o ARCHIVE_PREFIX \o <<5>> }

NoValue == [some |-> FALSE, bytes |-> << >>]

\* `data.strip_prefix(&ARCHIVE_PREFIX).unwrap_or(data)`
strip_prefix_Keep(data) == data

strip_prefix(data) ==
    IF Len(data) >= 4 /\ SubSeq(data, 1, 4) = ARCHIVE_PREFIX
    THEN SubSeq(data, 5, Len(data)) ELSE data

RECURSIVE ExtendAll(_, _)
\* `for data in operands { result.extend_from_slice(strip(data)) }`
ExtendAll(result, operands) ==
    IF operands = << >> THEN result
    ELSE ExtendAll(result \o strip_prefix(Head(operands)), Tail(operands))

\* `archive_data_merge(_, current_value, operands)`
archive_data_merge(current_value, operands) ==
    ExtendAll(IF current_value.some THEN current_value.bytes ELSE ARCHIVE_PREFIX,
              operands)

ArInit ==
    /\ fn_pc = "archive"
    /\ fn_args = [merged |-> << >>, operands |-> << >>]
    /\ fn_result = NoValue

\* `db.merge(key, fragment)`: one more operand under the key
FnMerge ==
    /\ fn_pc = "archive"
    /\ Len(fn_args.merged) < MaxFragments
    /\ \E f \in Fragments :
         fn_args' = [merged |-> Append(fn_args.merged, f),
                     operands |-> Append(fn_args.operands, f)]
    /\ UNCHANGED <<fn_pc, fn_result>>

\* A partial merge: the operator, registered as associative, folds some
\* adjacent operands into one, without a current value.
FnPartialMerge ==
    /\ fn_pc = "archive"
    /\ \E i, j \in 1..Len(fn_args.operands) :
         /\ i < j
         /\ fn_args' = [fn_args EXCEPT !.operands =
              SubSeq(@, 1, i - 1)
                \o <<archive_data_merge(NoValue, SubSeq(@, i, j))>>
                \o SubSeq(@, j + 1, Len(@))]
    /\ UNCHANGED <<fn_pc, fn_result>>

\* A full merge: the operands are folded into the current value, if any.
FnFullMerge ==
    /\ fn_pc = "archive"
    /\ fn_args.operands # << >>
    /\ fn_result' = [some |-> TRUE,
                     bytes |-> archive_data_merge(fn_result, fn_args.operands)]
    /\ fn_args' = [fn_args EXCEPT !.operands = << >>]
    /\ UNCHANGED fn_pc

\* parse_archive: fn_args holds the entries of the package and the position
\* of the reader, fn_result the BlockMaps built so far.
MaxEntries == 2

PaIds == [is_masterchain : BOOLEAN, seq_no : 1..2, root_hash : 1..2]

PaKinds == {"Block", "Proof", "ProofLink"}

PaEntries == [kind : PaKinds, id : PaIds]

EmptyMaps == [mc_block_ids |-> << >>, blocks |-> << >>]

\* `.entry(id).or_insert_with(BlocksEntry::default)`
BlocksEntry(blocks, id) ==
    IF id \in DOMAIN blocks THEN blocks[id] ELSE [block |-> FALSE, proof |-> "none"]

Put(map, key, value) ==
    [k \in DOMAIN map \cup {key} |-> IF k = key THEN value ELSE map[k]]

\* `if !id.is_masterchain() { continue; }` of a Proof and
\* `if id.is_masterchain() { continue; }` of a ProofLink
Skipped_Never(entry) == FALSE

Skipped(entry) ==
    \/ entry.kind = "Proof" /\ ~entry.id.is_masterchain
    \/ entry.kind = "ProofLink" /\ entry.id.is_masterchain

\* The body of the `while let Some(entry) = reader.read_next()?` loop for an
\* entry whose data deserializes.
parse_entry(maps, entry) ==
    LET id == entry.id
        e  == BlocksEntry(maps.blocks, id) IN
    IF Skipped(entry) THEN maps
    ELSE IF entry.kind = "Block"
    THEN [blocks |-> Put(maps.blocks, id, [e EXCEPT !.block = TRUE]),
          mc_block_ids |-> IF id.is_masterchain
                           THEN Put(maps.mc_block_ids, id.seq_no, id)
                           ELSE maps.mc_block_ids]
    ELSE IF entry.kind = "Proof"
    THEN [blocks |-> Put(maps.blocks, id, [e EXCEPT !.proof = "proof"]),
          mc_block_ids |-> Put(maps.mc_block_ids, id.seq_no, id)]
    ELSE [blocks |-> Put(maps.blocks, id, [e EXCEPT !.proof = "link"]),
          mc_block_ids |-> maps.mc_block_ids]

PaInit ==
    /\ fn_pc = "parse"
    /\ fn_result = EmptyMaps
    /\ \E n \in 0..MaxEntries :
         fn_args \in [entries : [1..n -> PaEntries], next : {1}]

\* One entry is read and handled.
FnParseEntry ==
    /\ fn_pc = "parse"
    /\ fn_args.next <= Len(fn_args.entries)
    /\ fn_result' = parse_entry(fn_result, fn_args.entries[fn_args.next])
    /\ fn_args' = [fn_args EXCEPT !.next = @ + 1]
    /\ UNCHANGED fn_pc

\* The data of a block or proof that is not skipped does not deserialize:
\* `?` returns the error and the maps are dropped.
FnParseFails ==
    /\ fn_pc = "parse"
    /\ fn_args.next <= Len(fn_args.entries)
    /\ ~Skipped(fn_args.entries[fn_args.next])
    /\ fn_pc' = "Err"
    /\ fn_result' = EmptyMaps
    /\ UNCHANGED fn_args

\* `read_next` returns None: `Ok(Arc::new(maps))`
FnParseDone ==
    /\ fn_pc = "parse"
    /\ fn_args.next > Len(fn_args.entries)
    /\ fn_pc' = "Ok"
    /\ UNCHANGED <<fn_args, fn_result>>

\* TopBlocks::contains_shard_seq_no. A shard is its workchain and the bits
\* of its prefix; fn_args holds the TopBlocks and the query, fn_result the
\* order the map was iterated in and the answer.
MaxTbDepth == 2

MaxRecorded == 2

TbBits == UNION { [1..n -> {0, 1}] : n \in 0..MaxTbDepth }

TbShards == [workchain_id : {0}, bits : TbBits]

TbMasterchain == [workchain_id |-> MASTERCHAIN_ID, bits |-> << >>]

TbHeights == {1000, 1001}

TbSeqNos == {999, 1000, 1001}

\* `ShardIdent::is_masterchain`
is_masterchain(shard) == shard.workchain_id = MASTERCHAIN_ID

\* `ShardIdent::intersect_with`: the same workchain, and one prefix starts
\* with the other
intersect_with(a, b) ==
    /\ a.workchain_id = b.workchain_id
    /\ LET n == Min({Len(a.bits), Len(b.bits)}) IN
       SubSeq(a.bits, 1, n) = SubSeq(b.bits, 1, n)

\* Shard heights of a masterchain block: shards that do not overlap
TbShardHeights ==
    UNION { [S -> TbHeights] :
              S \in { S \in SUBSET TbShards :
                        /\ Cardinality(S) <= MaxRecorded
                        /\ \A a, b \in S : a # b => ~intersect_with(a, b) } }

\* `seq_no >= top_seq_no`
AtLeast_Above(seq_no, top_seq_no) == seq_no > top_seq_no

AtLeast(seq_no, top_seq_no) == seq_no >= top_seq_no

RECURSIVE Find(_, _)
\* `.iter().find(|&(shard, _)| shard_ident.intersect_with(shard))` over the
\* map iterated in `order`
Find(order, shard_ident) ==
    IF order = << >> THEN {}
    ELSE IF intersect_with(shard_ident, Head(order)) THEN {Head(order)}
    ELSE Find(Tail(order), shard_ident)

contains_shard_seq_no(top_blocks, shard_ident, seq_no, order) ==
    IF is_masterchain(shard_ident) THEN AtLeast(seq_no, top_blocks.mc_block.seq_no)
    ELSE IF shard_ident \in DOMAIN top_blocks.shard_heights
    THEN AtLeast(seq_no, top_blocks.shard_heights[shard_ident])
    ELSE \E shard \in Find(order, shard_ident) :
           AtLeast(seq_no, top_blocks.shard_heights[shard])

TbInit ==
    /\ fn_pc = "contains"
    /\ fn_result = << >>
    /\ fn_args \in [top_blocks : [mc_block : [seq_no : TbHeights],
                                  shard_heights : TbShardHeights],
                    shard_ident : TbShards \cup {TbMasterchain},
                    seq_no : TbSeqNos]

FnContainsShardSeqNo ==
    /\ fn_pc = "contains"
    /\ \E order \in Orders(DOMAIN fn_args.top_blocks.shard_heights) :
         fn_result' = [order |-> order,
                       answer |-> contains_shard_seq_no(fn_args.top_blocks,
                                     fn_args.shard_ident, fn_args.seq_no, order)]
    /\ fn_pc' = "done"
    /\ UNCHANGED fn_args

(***************************************************************************)
(* Specifications.                                                         *)
(***************************************************************************)
vars == <<mc_vars, sh_vars, q_vars, l_vars, bg_vars, rt_vars, bi_vars, fz_vars, bc_vars, bh_vars, fn_vars>>

InitMc == McInit /\ ShIdle /\ QIdle /\ LIdle /\ BgIdle /\ RtIdle /\ BiIdle /\ FzIdle /\ BcIdle /\ BhIdle /\ FnIdle

OthersMc == <<sh_vars, q_vars, l_vars, bg_vars, rt_vars, bi_vars, fz_vars, bc_vars, bh_vars, fn_vars>>

NextMc ==
    \/ McVisitOld /\ UNCHANGED OthersMc
    \/ McVisitGap /\ UNCHANGED OthersMc
    \/ McVisitApplied /\ UNCHANGED OthersMc
    \/ McVisitApply /\ UNCHANGED OthersMc
    \/ McReturn /\ UNCHANGED OthersMc

SpecMc == InitMc /\ [][NextMc]_vars

InitSh == ShInit /\ McIdle /\ QIdle /\ LIdle /\ BgIdle /\ RtIdle /\ BiIdle /\ FzIdle /\ BcIdle /\ BhIdle /\ FnIdle

OthersSh == <<mc_vars, q_vars, l_vars, bg_vars, rt_vars, bi_vars, fz_vars, bc_vars, bh_vars, fn_vars>>

NextSh ==
    \/ ShSaveBlocks /\ UNCHANGED OthersSh
    \/ ShSkip /\ UNCHANGED OthersSh
    \/ ShSpawn /\ UNCHANGED OthersSh
    \/ ShTaskFinish /\ UNCHANGED OthersSh
    \/ ShJoinErr /\ UNCHANGED OthersSh
    \/ ShJoinOk /\ UNCHANGED OthersSh
    \/ ShReturn /\ UNCHANGED OthersSh

SpecSh == InitSh /\ [][NextSh]_vars

InitQ == QInit /\ McIdle /\ ShIdle /\ LIdle /\ BgIdle /\ RtIdle /\ BiIdle /\ FzIdle /\ BcIdle /\ BhIdle /\ FnIdle

OthersQ == <<mc_vars, sh_vars, l_vars, bg_vars, rt_vars, bi_vars, fz_vars, bc_vars, bh_vars, fn_vars>>

NextQ ==
    \/ QSyncedChanges /\ UNCHANGED OthersQ
    \/ QOuterSynced /\ UNCHANGED OthersQ
    \/ QOuterIterate /\ UNCHANGED OthersQ
    \/ QApplyQueued /\ UNCHANGED OthersQ
    \/ QApplyNone /\ UNCHANGED OthersQ
    \/ QProcessSynced /\ UNCHANGED OthersQ
    \/ QProcessEnter /\ UNCHANGED OthersQ
    \/ QProcessSchedule /\ UNCHANGED OthersQ
    \/ QResponseNotFound /\ UNCHANGED OthersQ
    \/ QResponseApply /\ UNCHANGED OthersQ
    \/ QResponsePark /\ UNCHANGED OthersQ
    \/ QResponseError /\ UNCHANGED OthersQ

SpecQ == InitQ /\ [][NextQ]_vars

InitL == LInit /\ McIdle /\ ShIdle /\ QIdle /\ BgIdle /\ RtIdle /\ BiIdle /\ FzIdle /\ BcIdle /\ BhIdle /\ FnIdle

OthersL == <<mc_vars, sh_vars, q_vars, bg_vars, rt_vars, bi_vars, fz_vars, bc_vars, bh_vars, fn_vars>>

NextL ==
    \/ LSyncedChanges /\ UNCHANGED OthersL
    \/ LImportOk /\ UNCHANGED OthersL
    \/ LImportErr /\ UNCHANGED OthersL
    \/ LSyncedBreak /\ UNCHANGED OthersL
    \/ LAccept /\ UNCHANGED OthersL

SpecL == InitL /\ [][NextL]_vars

InitBg == BgInit /\ McIdle /\ ShIdle /\ QIdle /\ LIdle /\ RtIdle /\ BiIdle /\ FzIdle /\ BcIdle /\ BhIdle /\ FnIdle

OthersBg == <<mc_vars, sh_vars, q_vars, l_vars, rt_vars, bi_vars, fz_vars, bc_vars, bh_vars, fn_vars>>

NextBg ==
    \/ BgSaveEmpty /\ UNCHANGED OthersBg
    \/ BgSaveFails /\ UNCHANGED OthersBg
    \/ BgSaveArchive /\ UNCHANGED OthersBg

SpecBg == InitBg /\ [][NextBg]_vars

InitRt == RtInit /\ McIdle /\ ShIdle /\ QIdle /\ LIdle /\ BgIdle /\ BiIdle /\ FzIdle /\ BcIdle /\ BhIdle /\ FnIdle

OthersRt == <<mc_vars, sh_vars, q_vars, l_vars, bg_vars, bi_vars, fz_vars, bc_vars, bh_vars, fn_vars>>

NextRt ==
    \/ RtProcessPacket /\ UNCHANGED OthersRt
    \/ RtFinalizeStart /\ UNCHANGED OthersRt
    \/ RtReadChunk /\ UNCHANGED OthersRt
    \/ RtFinalizeCell /\ UNCHANGED OthersRt
    \/ RtChunkDone /\ UNCHANGED OthersRt
    \/ RtFinish /\ UNCHANGED OthersRt

SpecRt == InitRt /\ [][NextRt]_vars

InitBi == BiInit /\ McIdle /\ ShIdle /\ QIdle /\ LIdle /\ BgIdle /\ RtIdle /\ FzIdle /\ BcIdle /\ BhIdle /\ FnIdle

OthersBi == <<mc_vars, sh_vars, q_vars, l_vars, bg_vars, rt_vars, fz_vars, bc_vars, bh_vars, fn_vars>>

NextBi ==
    \/ BiAddHandle /\ UNCHANGED OthersBi
    \/ BiGetBlockBySeqNo /\ UNCHANGED OthersBi

SpecBi == InitBi /\ [][NextBi]_vars

InitGc == BiInit /\ McIdle /\ ShIdle /\ QIdle /\ LIdle /\ BgIdle /\ RtIdle /\ FzIdle /\ BcIdle /\ BhIdle /\ FnIdle

NextGc ==
    \/ BiAddHandle /\ UNCHANGED OthersBi
    \/ BiGc /\ UNCHANGED OthersBi

SpecGc == InitGc /\ [][NextGc]_vars

InitLk == LkInit /\ McIdle /\ ShIdle /\ QIdle /\ LIdle /\ BgIdle /\ RtIdle /\ FzIdle /\ BcIdle /\ BhIdle /\ FnIdle

NextLk ==
    \/ BiGetBlockByLt /\ UNCHANGED OthersBi
    \/ BiGetBlockByUtime /\ UNCHANGED OthersBi

SpecLk == InitLk /\ [][NextLk]_vars

InitBc == BcInit /\ McIdle /\ ShIdle /\ QIdle /\ LIdle /\ BgIdle /\ RtIdle /\ BiIdle /\ FzIdle /\ BhIdle /\ FnIdle

OthersBc == <<mc_vars, sh_vars, q_vars, l_vars, bg_vars, rt_vars, bi_vars, fz_vars, bh_vars, fn_vars>>

NextBc ==
    \/ \E w \in Writers : BcAddBegin(w) /\ UNCHANGED OthersBc
    \/ \E w \in Writers : BcStoreLt(w) /\ UNCHANGED OthersBc
    \/ \E w \in Writers : BcStoreDesc(w) /\ UNCHANGED OthersBc
    \/ BcReadDesc /\ UNCHANGED OthersBc
    \/ BcSearchStep /\ UNCHANGED OthersBc

SpecBc == InitBc /\ [][NextBc]_vars

InitBh == BhInit /\ McIdle /\ ShIdle /\ QIdle /\ LIdle /\ BgIdle /\ RtIdle /\ BiIdle /\ FzIdle /\ BcIdle /\ FnIdle

OthersBh == <<mc_vars, sh_vars, q_vars, l_vars, bg_vars, rt_vars, bi_vars, fz_vars, bc_vars, fn_vars>>

NextBh ==
    \/ BhSetMasterchainRefSeqno /\ UNCHANGED OthersBh

SpecBh == InitBh /\ [][NextBh]_vars

\* Every component but the functions is idle.
AllIdle ==
    McIdle /\ ShIdle /\ QIdle /\ LIdle /\ BgIdle /\ RtIdle /\ BiIdle /\ FzIdle /\ BcIdle /\ BhIdle

OthersFn == <<mc_vars, sh_vars, q_vars, l_vars, bg_vars, rt_vars, bi_vars, fz_vars, bc_vars, bh_vars>>

InitWb == WbInit /\ AllIdle

NextWb ==
    \/ FnWarmBoot /\ UNCHANGED OthersFn

SpecWb == InitWb /\ [][NextWb]_vars

InitPf == PfInit /\ AllIdle

NextPf ==
    \/ FnDownloadKeyBlockProof /\ UNCHANGED OthersFn
    \/ FnSaveBlock /\ UNCHANGED OthersFn

SpecPf == InitPf /\ [][NextPf]_vars

InitCk == CkInit /\ AllIdle

NextCk ==
    \/ FnChooseKeyBlock /\ UNCHANGED OthersFn

SpecCk == InitCk /\ [][NextCk]_vars

InitSv == SvInit /\ AllIdle

NextSv ==
    \/ FnShardIdent /\ UNCHANGED OthersFn
    \/ FnBlockIdExt /\ UNCHANGED OthersFn
    \/ FnLtDbKey /\ UNCHANGED OthersFn
    \/ FnTopBlocks /\ UNCHANGED OthersFn

SpecSv == InitSv /\ [][NextSv]_vars

InitAr == ArInit /\ AllIdle

NextAr ==
    \/ FnMerge /\ UNCHANGED OthersFn
    \/ FnPartialMerge /\ UNCHANGED OthersFn
    \/ FnFullMerge /\ UNCHANGED OthersFn

SpecAr == InitAr /\ [][NextAr]_vars

InitPa == PaInit /\ AllIdle

NextPa ==
    \/ FnParseEntry /\ UNCHANGED OthersFn
    \/ FnParseFails /\ UNCHANGED OthersFn
    \/ FnParseDone /\ UNCHANGED OthersFn

SpecPa == InitPa /\ [][NextPa]_vars

InitTb == TbInit /\ AllIdle

NextTb == FnContainsShardSeqNo /\ UNCHANGED OthersFn

SpecTb == InitTb /\ [][NextTb]_vars

InitFz ==
    FzInit /\ McIdle /\ ShIdle /\ QIdle /\ LIdle /\ BgIdle /\ RtIdle /\ BiIdle /\ BcIdle /\ BhIdle /\ FnIdle

OthersFz == <<mc_vars, sh_vars, q_vars, l_vars, bg_vars, rt_vars, bi_vars, bc_vars, bh_vars, fn_vars>>

NextFz ==
    \/ FzReadChunk /\ UNCHANGED OthersFz
    \/ FzFinalizeCell /\ UNCHANGED OthersFz
    \/ FzChunkDone /\ UNCHANGED OthersFz
    \/ FzFinish /\ UNCHANGED OthersFz
    \/ FzSecondRun /\ UNCHANGED OthersFz

SpecFz == InitFz /\ [][NextFz]_vars

(***************************************************************************)
(* C1: import_mc_blocks hands blocks to apply_block_ext in ascending,      *)
(* consecutive seq_no order starting at last_mc_block_id.seq_no + 1: every *)
(* applied seq_no lies in the unbroken run of archive keys that starts at  *)
(* last + 1, no id with seq_no <= last is applied, every block of the run  *)
(* below an applied one is applied, and BlocksSkippedInArchive is returned *)
(* exactly at the first key beyond the run, that block and all later ones  *)
(* being left unapplied.                                                   *)
(***************************************************************************)
McChainEnd ==
    Max({ n \in mc_init_last[1]..MaxMcSeqNo :
            \A k \in (mc_init_last[1] + 1)..n : k \in DOMAIN mc_block_ids })

McBeyond == { k \in DOMAIN mc_block_ids : k > McChainEnd }

C1_ConsecutiveApply ==
    /\ \A i \in 1..Len(mc_log) :
         /\ mc_log[i] > mc_init_last[1]
         /\ mc_log[i] <= McChainEnd
         /\ \A j \in 1..Len(mc_log) : i < j => mc_log[i] < mc_log[j]
         /\ \A k \in (mc_init_last[1] + 1)..(mc_log[i] - 1) :
              mc_block_ids[k] \in mc_applied
    /\ mc_result = "BlocksSkippedInArchive" =>
         /\ McBeyond # {}
         /\ Min(McBeyond) \notin mc_todo
         /\ mc_todo = McBeyond \ {Min(McBeyond)}
         /\ last_mc_block_id[1] = McChainEnd
    /\ mc_result = "Ok" =>
         /\ McBeyond = {}
         /\ \A k \in (mc_init_last[1] + 1)..McChainEnd :
              mc_block_ids[k] \in mc_applied

C1_Witness ==
    /\ mc_result = "BlocksSkippedInArchive"
    /\ Len(mc_log) >= 1
    /\ \E k \in DOMAIN mc_block_ids : k <= mc_init_last[1]

(***************************************************************************)
(* C2: the shards-client cursor is stored for masterchain block S only     *)
(* after every shard task spawned for S has completed successfully; when a *)
(* task of S has failed, the cursor is never stored for S and no task of a *)
(* later masterchain block is spawned.                                     *)
(***************************************************************************)
C2_CursorAfterAllTasks ==
    /\ \A s \in sh_stored :
         /\ s \in DOMAIN sh_tasks
         /\ \A t \in DOMAIN sh_tasks[s] : sh_tasks[s][t] \in TaskOk
    /\ sh_cursor \in sh_stored \/ (sh_stored = {} /\ sh_cursor = sh_last)
    /\ \A s \in DOMAIN sh_tasks :
         (\E t \in DOMAIN sh_tasks[s] : sh_tasks[s][t] \in TaskFailed) =>
            /\ s \notin sh_stored
            /\ \A s2 \in DOMAIN sh_tasks : s2 <= s

C2_Witness ==
    /\ sh_result = "ShardTaskFailed"
    /\ sh_stored # {}
    /\ \E s \in sh_stored : Cardinality(DOMAIN sh_tasks[s]) = MaxShards
    /\ sh_todo # {}

(***************************************************************************)
(* C3: the download queue never holds more than MAX_CONCURRENCY entries.   *)
(***************************************************************************)
C3_QueueAtMostMax ==
    Cardinality(DOMAIN q_queue) <= MAX_CONCURRENCY

(***************************************************************************)
(* C4: after retry_downloading_not_found_archives returns with some entry  *)
(* Downloaded, every entry that was NotFound with a seq_no <= the largest  *)
(* Downloaded seq_no is Downloading and has a request outstanding that     *)
(* was started by this call; no NotFound entry is left at or below it.     *)
(***************************************************************************)
C4_NotFoundBelowLatestReissued ==
    LET r == q_retry IN
    Downloaded(r.post) # {} =>
       /\ \A s \in NotFound(r.pre) :
            s <= Max(Downloaded(r.post)) =>
               /\ r.post[s] = "Downloading"
               /\ s \in r.started
               /\ s \in DOMAIN r.pending
       /\ \A s \in NotFound(r.post) : s > Max(Downloaded(r.post))

C4_Witness ==
    /\ Downloaded(q_retry.pre) # {}
    /\ \E s \in NotFound(q_retry.pre) :
         /\ s < Max(Downloaded(q_retry.pre))
         /\ s \in q_retry.started
         /\ s \in DOMAIN q_pending

(***************************************************************************)
(* C6: the number of outstanding download requests never exceeds           *)
(* MAX_CONCURRENCY.                                                        *)
(***************************************************************************)
C6_PendingAtMostMax ==
    CountPending(q_pending) <= MAX_CONCURRENCY

C6_Witness ==
    /\ CountPending(q_pending) = MAX_CONCURRENCY
    /\ q_retry.started # {}
    /\ Cardinality(DOMAIN q_queue) > MAX_CONCURRENCY

(***************************************************************************)
(* C7: start_downloads runs with concurrency 1 as long as no apply has     *)
(* returned Ok and with MAX_CONCURRENCY in every call after the first      *)
(* apply that returned Ok; the concurrency never decreases.                *)
(***************************************************************************)
C7_SlowStartState ==
    /\ q_sched[2] = 0 => q_sched[1] = 1
    /\ q_sched[2] >= 1 => q_sched[1] = MAX_CONCURRENCY
    /\ q_applied = 0 => q_concurrency = 1
    /\ q_applied >= 1 => q_concurrency = MAX_CONCURRENCY

C8_ProbeEarliestOnly ==
    LET r == q_retry IN
    Downloaded(r.pre) = {} =>
       /\ Cardinality(r.started) <= 1
       /\ (~r.synced /\ DOMAIN r.pre # {} /\ NotFound(r.pre) = DOMAIN r.pre) =>
            /\ r.started = {Min(DOMAIN r.pre)}
            /\ r.post = [r.pre EXCEPT ![Min(DOMAIN r.pre)] = "Downloading"]
            /\ Min(DOMAIN r.pre) \in DOMAIN r.pending
       /\ (r.synced \/ NotFound(r.pre) # DOMAIN r.pre) =>
            /\ r.started = {}
            /\ r.post = r.pre

C8_Witness ==
    /\ Downloaded(q_retry.pre) = {}
    /\ ~q_retry.synced
    /\ Cardinality(DOMAIN q_retry.pre) >= 3
    /\ NotFound(q_retry.pre) = DOMAIN q_retry.pre
    /\ q_retry.started = {Min(DOMAIN q_retry.pre)}

(***************************************************************************)
(* C5: archive.accept() is called only for an archive whose                *)
(* import_package returned Ok.                                             *)
(***************************************************************************)
C5_AcceptOnlyImported ==
    \A a \in l_accepted : l_import[a] = "Ok"

(***************************************************************************)
(* C9: background sync has stopped, with the cursor at the archive's       *)
(* highest masterchain seq_no, as soon as a saved archive's highest seq_no *)
(* is >= high; after an archive whose highest seq_no is < high the cursor  *)
(* is at that seq_no and the sync goes on.                                 *)
(***************************************************************************)
C9_StopsAtHigh ==
    BgLastSaved # 0 =>
       /\ bg_cursor = BgLastSaved
       /\ BgLastSaved >= bg_high => bg_pc = "done" /\ bg_result = "Ok"
       /\ BgLastSaved < bg_high => bg_result # "Ok"

\* The same statement restricted to the save_archive of sync/mod.rs.
C9_StopsAtHighMod ==
    bg_variant = "mod" => C9_StopsAtHigh

C13_TrueIffExhausted ==
    rt_returned # "none" =>
       (rt_returned = "true" <=>
           /\ rt_header
           /\ rt_cells_read = rt_cell_count
           /\ rt_has_crc => rt_crc_read)

(***************************************************************************)
(* C16: once process_packet has returned true, a further call with an      *)
(* empty packet appends nothing to the cells file, leaves cells_read and   *)
(* the header unchanged and returns true again.                            *)
(***************************************************************************)
C16_IdempotentReentry ==
    [][(rt_returned = "true" /\ rt_pc = "ingest" /\ rt_pc' = "ingest"
          /\ rt_sent' = rt_sent)
        => /\ rt_returned' = "true"
           /\ rt_file' = rt_file
           /\ rt_cells_read' = rt_cells_read
           /\ rt_header' = rt_header]_vars

\* The same statement for a BoC without CRC.
C16_IdempotentReentryNoCrc ==
    [][(rt_returned = "true" /\ rt_pc = "ingest" /\ rt_pc' = "ingest"
          /\ rt_sent' = rt_sent /\ ~rt_has_crc)
        => /\ rt_returned' = "true"
           /\ rt_file' = rt_file
           /\ rt_cells_read' = rt_cells_read
           /\ rt_header' = rt_header]_vars

(***************************************************************************)
(* C17: add_handle for a block whose seq_no is lower than the shard's      *)
(* LtDesc.last_seq_no fails with AscendingOrderRequired and leaves the Lt  *)
(* table and the LtDesc table unchanged; the seq_nos of the entries of one *)
(* shard are strictly increasing in the order they were added (the order   *)
(* of their indices).                                                      *)
(***************************************************************************)
C17_LowerRefused ==
    bi_calls' = bi_calls + 1 =>
       LET handle == bi_last'.handle
           descs  == try_load_lt_desc(bi_lt_desc, handle.shard)
       IN \A desc \in descs :
            handle.seq_no < desc.last_seq_no =>
               /\ bi_last'.result = "AscendingOrderRequired"
               /\ bi_lt' = bi_lt
               /\ bi_lt_desc' = bi_lt_desc

C17_Increasing ==
    \A e1, e2 \in bi_lt :
       (e1.shard = e2.shard /\ e1.index < e2.index) => e1.seq_no < e2.seq_no

C17_AscendingOrderRequired ==
    []C17_Increasing /\ [][C17_LowerRefused]_vars

C17_Witness ==
    /\ bi_last.result = "AscendingOrderRequired"
    /\ \E e \in bi_lt : e.shard = bi_last.handle.shard
                         /\ e.seq_no > bi_last.handle.seq_no

(***************************************************************************)
(* C18: add_handle for a block whose seq_no equals the shard's             *)
(* LtDesc.last_seq_no returns Ok, writes no Lt entry and leaves LtDesc     *)
(* unchanged; the block indexed first keeps its index.                     *)
(***************************************************************************)
C18_EqualNoop ==
    bi_calls' = bi_calls + 1 =>
       LET handle == bi_last'.handle
           descs  == try_load_lt_desc(bi_lt_desc, handle.shard)
       IN \A desc \in descs :
            handle.seq_no = desc.last_seq_no =>
               /\ bi_last'.result = "Ok"
               /\ bi_lt' = bi_lt
               /\ bi_lt_desc' = bi_lt_desc

C18_ReaddIsNoop ==
    [][C18_EqualNoop]_vars

C18_Witness ==
    /\ bi_last.result = "Ok"
    /\ bi_last.index = 0
    /\ \E e \in bi_lt : /\ e.shard = bi_last.handle.shard
                        /\ e.seq_no = bi_last.handle.seq_no
                        /\ e.root_hash # bi_last.handle.root_hash

(***************************************************************************)
(* C19: for every shard with an LtDesc, first_index = 1, the Lt table has  *)
(* an entry for exactly the indices 1..last_index of the shard and the     *)
(* entry at last_index has seq_no = last_seq_no; the first block of a      *)
(* shard gets index 1 and each later block the previous last_index + 1.    *)
(***************************************************************************)
C19_Dense ==
    /\ \A desc \in bi_lt_desc :
          /\ desc.first_index = 1
          /\ { e.index : e \in { x \in bi_lt : x.shard = desc.shard } }
                = 1..desc.last_index
          /\ \E e \in bi_lt : /\ e.shard = desc.shard
                              /\ e.index = desc.last_index
                              /\ e.seq_no = desc.last_seq_no
    /\ \A e \in bi_lt : try_load_lt_desc(bi_lt_desc, e.shard) # {}

C19_IndexGiven ==
    (bi_calls' = bi_calls + 1 /\ bi_lt' # bi_lt) =>
       LET handle == bi_last'.handle
           descs  == try_load_lt_desc(bi_lt_desc, handle.shard)
           row    == CHOOSE e \in bi_lt' \ bi_lt : TRUE
       IN /\ bi_lt' \ bi_lt = {row}
          /\ bi_lt \subseteq bi_lt'
          /\ row.shard = handle.shard
          /\ row.seq_no = handle.seq_no
          /\ row.index = bi_last'.index
          /\ descs = {} => row.index = 1
          /\ \A desc \in descs : row.index = desc.last_index + 1

ContainsPrefix(shard, account_prefix) ==
    /\ shard.wc = account_prefix.wc
    /\ Len(shard.bits) <= Len(account_prefix.bits)
    /\ shard.bits = SubSeq(account_prefix.bits, 1, Len(shard.bits))

C20_Indexed(shards) ==
    { e \in bi_lt : e.shard \in shards /\ e.seq_no = bi_lookup.seq_no }

C20_Lookup(shards) ==
    bi_lookup.result # "none" =>
       /\ C20_Indexed(shards) # {} =>
             /\ bi_lookup.result = "Ok"
             /\ bi_lookup.block \subseteq C20_Indexed(shards)
             /\ bi_lookup.block # {}
       /\ C20_Indexed(shards) = {} => bi_lookup.result = "BlockNotFound"
       /\ \A e \in bi_lookup.block : e.seq_no = bi_lookup.seq_no

C20_ExactLookup ==
    C20_Lookup({ sh \in Shards : ContainsPrefix(sh, bi_lookup.account_prefix) })

\* The shards the scan of get_block reaches: those of the first unbroken
\* run of prefix lengths that have an LtDesc.
C20_Scanned ==
    LET has(n) == try_load_lt_desc(
                      bi_lt_desc,
                      with_prefix_len(n, bi_lookup.account_prefix)) # {}
    IN { with_prefix_len(n, bi_lookup.account_prefix) :
           n \in { k \in 0..MaxSplitDepth :
                     /\ has(k)
                     /\ \A j \in 0..k :
                          (\E i \in 0..j : has(i)) => has(j) } }

\* C20 as amended: the lookup is exact over the shards of the first
\* unbroken run of prefix lengths with an LtDesc.
C20_ExactLookupScanned ==
    C20_Lookup(C20_Scanned)

C20_Witness ==
    /\ bi_lookup.result = "Ok"
    /\ \E e \in bi_lookup.block : Len(e.shard.bits) >= 1
    /\ Cardinality({ d \in bi_lt_desc :
                       ContainsPrefix(d.shard, bi_lookup.account_prefix) }) >= 2


(***************************************************************************)
(* C11: the first byte of every cell value finalize_cell queues is the     *)
(* marker the transaction was built with, for the values still in the      *)
(* batch and for those written to the cells table.                         *)
(***************************************************************************)
C11_MarkerFirstByte ==
    /\ \A k \in 1..Len(fz_batch) : fz_batch[k].value[1] = fz_marker
    /\ \A row \in fz_db : row.value[1] = fz_marker

\* a pruned branch and an ordinary cell were stored under marker 1
C11_Witness ==
    /\ fz_marker = 1
    /\ fz_pc = "done"
    /\ fz_result = "Ok"
    /\ \E row \in fz_db : row.value[2] = to_u8("PrunedBranch")
    /\ \E row \in fz_db : row.value[2] = to_u8("Ordinary")

(***************************************************************************)
(* C12: a depth stored in an entry is at most MAX_DEPTH, and a cell one of *)
(* whose children has depth MAX_DEPTH or more makes finalize fail with     *)
(* InvalidCell.                                                            *)
(***************************************************************************)
C12_StoredDepths ==
    \A k \in DOMAIN fz_entries :
        \A i \in 1..4 : fz_entries[k].depths[i] <= MAX_DEPTH

\* the cell finalize_cell was last called for has a child whose depth at
\* the adjusted level 0 is MAX_DEPTH or more
C12_TooDeep ==
    /\ fz_visit.status # "none"
    /\ from_stored_data(StoredCell(fz_visit.cell.reference_indices),
                        fz_cell_count, fz_visit.index).ok
    /\ fz_visit.cell.cell_type \in {"Ordinary", "LibraryReference", "MerkleProof"}
    /\ \A k \in 1..Len(fz_visit.cell.reference_indices) :
          fz_entries[fz_visit.cell.reference_indices[k]].cell_type = "PrunedBranch"
          => fz_visit.cell.reference_indices[k] \in DOMAIN fz_pruned
    /\ \E k \in 1..Len(fz_visit.cell.reference_indices) :
          ChildDepth(fz_entries, fz_pruned, fz_visit.cell.reference_indices[k],
                     0, fz_visit.cell.cell_type = "MerkleProof") + 1 > MAX_DEPTH

C12_TooDeepFails == C12_TooDeep => fz_visit.status = "InvalidCell"

C12_DepthBound == C12_StoredDepths /\ C12_TooDeepFails

(***************************************************************************)
(* C14: the batch that is not yet written never holds more than            *)
(* CELLS_PER_BATCH cells.                                                  *)
(***************************************************************************)
C14_BatchBounded ==
    /\ Len(fz_batch) <= CELLS_PER_BATCH
    /\ fz_batch_len <= CELLS_PER_BATCH

C21_GcDeletesRows ==
    (bi_pc = "collected" /\ bi_gc.result = "Ok")
    => \A k \in 1..Len(bi_gc.ids) :
          ~\E e \in bi_lt : /\ e.shard = bi_gc.ids[k].shard
                            /\ e.seq_no = bi_gc.ids[k].seq_no
                            /\ e.root_hash = bi_gc.ids[k].root_hash


(***************************************************************************)
(* C22: a get_block that runs while add_handle calls run never fails with  *)
(* LtDbEntryNotFound: every index from first_index to last_index of a      *)
(* LtDesc row the reader has loaded has its Lt entry.                      *)
(***************************************************************************)
C22_ReaderNeedsNoLock ==
    /\ bc_r.ret # "LtDbEntryNotFound"
    /\ \A d \in bc_seen :
          \A index \in d.first_index..d.last_index :
             LtDb_load(bc_lt, d.shard, index) # {}

\* the reader is in the binary search of a shard for which a writer has
\* stored an Lt entry and not yet the LtDesc
C22_Witness ==
    /\ bc_r.pc = "search"
    /\ \E w \in Writers :
          /\ bc_w[w].pc = "desc"
          /\ bc_w[w].handle.shard
               = with_prefix_len(bc_r.prefix_len, bc_r.account_prefix)

C24_SetResults ==
    bh_last.result # "none"
    => /\ bh_last.before = 0 => bh_last.result = "Ok(true)"
       /\ (bh_last.before # 0 /\ bh_last.before = bh_last.arg)
          => bh_last.result = "Ok(false)"
       /\ (bh_last.before # 0 /\ bh_last.before # bh_last.arg)
          => bh_last.result = "RefSeqnoAlreadySet"

\* a value was set, set again and then a different value was refused
C24_Witness ==
    /\ bh_calls = 3
    /\ bh_meta = 2
    /\ bh_last = [arg |-> 3, before |-> 2, result |-> "RefSeqnoAlreadySet"]

(***************************************************************************)
(* C25: the stored ref seqno, once non-zero, never changes, also over      *)
(* calls that fail with RefSeqnoAlreadySet, and masterchain_ref_seqno() of *)
(* a handle that is not of the masterchain returns the first non-zero      *)
(* value set.                                                              *)
(***************************************************************************)
C25_Kept ==
    bh_first # 0
    => /\ bh_meta = bh_first
       /\ ~bh_id.is_masterchain
          => masterchain_ref_seqno(bh_id, bh_meta) = bh_first

C26_WarmBoot ==
    fn_pc = "done"
    => LET id == fn_args.last_mc_block_id
           handle == fn_args.handle
           state == fn_args.state
       IN /\ handle = "None" => fn_result.status = "FailedToLoadInitialBlock"
          /\ (/\ handle \in {"KeyBlock", "NotKeyBlock"}
              /\ state.load # "Err"
              /\ (id.seq_no = 0 \/ handle = "KeyBlock"))
             => fn_result = [status |-> "Ok", id |-> id]
          /\ (/\ handle = "NotKeyBlock" /\ id.seq_no # 0
              /\ state.load = "Ok" /\ state.last_key_block # {})
             => /\ fn_result.status = "Ok"
                /\ fn_result.id \in state.last_key_block

\* warm_boot walked from a block that is not a key block to another id
C26_Witness ==
    /\ fn_pc = "done"
    /\ fn_args.handle = "NotKeyBlock"
    /\ fn_result.status = "Ok"
    /\ fn_result.id # fn_args.last_mc_block_id


(***************************************************************************)
(* C27: when the check of the proof of block B against the proof of the    *)
(* previous key block fails, the proof is stored if and only if the engine *)
(* reports B as a hard fork, in download_key_block_proof and in            *)
(* save_block.                                                             *)
(***************************************************************************)
C27_CheckFailed ==
    /\ fn_pc \in {"done_boot", "done_sync"}
    /\ ~fn_args.is_link
    /\ fn_args.prev_key_block_id # 0
    /\ fn_args.check = "Err"

C27_HardForkOnly ==
    C27_CheckFailed
    => (fn_result.stored <=> fn_args.block_id \in fn_args.hard_forks)

\* the same for download_key_block_proof alone
C27_HardForkOnlyBoot ==
    (C27_CheckFailed /\ fn_pc = "done_boot")
    => (fn_result.stored <=> fn_args.block_id \in fn_args.hard_forks)


(***************************************************************************)
(* C28: choose_key_block returns the newest handle of the list whose       *)
(* gen_utime + 300 is at most now and that is persistent relative to the   *)
(* handle before it (or is the first, or follows a handle with gen_utime   *)
(* 0), and PersistentShardStateNotFound exactly when there is none.        *)
(***************************************************************************)
C28_Eligible(key_blocks, now, i) ==
    /\ key_blocks[i] <= now - INTITAL_SYNC_TIME_SECONDS
    /\ \/ i = 1
       \/ key_blocks[i - 1] = 0
       \/ is_persistent_state(key_blocks[i], key_blocks[i - 1])

C28_NewestEligible ==
    fn_pc = "done"
    => LET l == fn_args.key_blocks
           eligible == { i \in 1..Len(l) : C28_Eligible(l, fn_args.now, i) }
       IN IF eligible = {}
            THEN fn_result = [status |-> "PersistentShardStateNotFound", handle |-> 0]
            ELSE fn_result = [status |-> "Ok", handle |-> Max(eligible)]

\* the same for lists whose gen_utime + 300 does not exceed i32::MAX
C28_NewestEligibleInRange ==
    (fn_pc = "done"
     /\ \A i \in 1..Len(fn_args.key_blocks) :
           fn_args.key_blocks[i] <= I32_MAX - INTITAL_SYNC_TIME_SECONDS)
    => C28_NewestEligible


(***************************************************************************)
(* C29: deserializing what serialize wrote gives the value back, for       *)
(* BlockIdExt (4 + 8 + 4 + 32 + 32 bytes), ShardIdent (negative workchain  *)
(* ids included), TopBlocks and LtDbKey, and reads exactly the bytes       *)
(* written: what follows them stays in the reader.                         *)
(***************************************************************************)
C29_RoundTrip ==
    fn_pc = "done"
    => /\ fn_result.read = [ok |-> TRUE, value |-> fn_args.value,
                            rest |-> fn_args.tail]
       /\ fn_args.value \in StoredBlockIds => Len(fn_result.bytes) = 80
       /\ fn_args.value \in StoredShardIdents => Len(fn_result.bytes) = 12

\* TopBlocks with two shard heights, of the masterchain (workchain -1),
\* was read back with bytes following it
C29_Witness ==
    /\ fn_pc = "done"
    /\ fn_args.value \in StoredTopBlocks
    /\ Cardinality(DOMAIN fn_args.value.shard_heights) = 2
    /\ fn_result.read.value.mc_block.shard_id.workchain_id = -1
    /\ fn_args.tail # << >>


(***************************************************************************)
(* C30: once the fragments merged under a key are folded into its value,   *)
(* however they were grouped into partial merges and whether the fold      *)
(* started from a current value or from none, the value is ARCHIVE_PREFIX  *)
(* once, then the payload of every fragment in merge order, a fragment's   *)
(* payload being the fragment without its own leading ARCHIVE_PREFIX.      *)
(***************************************************************************)
C30_Payload(f) ==
    IF Len(f) >= Len(ARCHIVE_PREFIX) /\ SubSeq(f, 1, Len(ARCHIVE_PREFIX)) = ARCHIVE_PREFIX
    THEN SubSeq(f, Len(ARCHIVE_PREFIX) + 1, Len(f)) ELSE f

RECURSIVE C30_Payloads(_)
C30_Payloads(fs) ==
    IF fs = << >> THEN << >> ELSE C30_Payload(Head(fs)) \o C30_Payloads(Tail(fs))

C30_PrefixOnce ==
    (fn_pc = "archive" /\ fn_args.operands = << >> /\ fn_args.merged # << >>)
    => fn_result = [some |-> TRUE,
                    bytes |-> ARCHIVE_PREFIX \o C30_Payloads(fn_args.merged)]

\* Four fragments, some with the prefix and some without, were folded into
\* the value
C30_Witness ==
    /\ fn_pc = "archive"
    /\ fn_args.operands = << >>
    /\ Len(fn_args.merged) = MaxFragments
    /\ \E i, j \in 1..MaxFragments :
         /\ C30_Payload(fn_args.merged[i]) # fn_args.merged[i]
         /\ C30_Payload(fn_args.merged[j]) = fn_args.merged[j]
         /\ fn_args.merged[j] # << >>
    /\ Len(fn_result.bytes) > Len(ARCHIVE_PREFIX)


(***************************************************************************)
(* C31: parse_archive leaves maps.blocks and maps.mc_block_ids as they     *)
(* are when it reads a Proof of a non-masterchain block or a ProofLink of  *)
(* a masterchain block, and maps.mc_block_ids holds only ids of            *)
(* masterchain blocks, each under its seq_no.                              *)
(***************************************************************************)
C31_McIdsOnly ==
    fn_pc \in {"parse", "Ok"}
    => \A k \in DOMAIN fn_result.mc_block_ids :
         /\ fn_result.mc_block_ids[k].is_masterchain
         /\ fn_result.mc_block_ids[k].seq_no = k

C31_IgnoredEntries ==
    /\ []C31_McIdsOnly
    /\ [][(/\ fn_pc = "parse" /\ fn_pc' = "parse"
           /\ LET entry == fn_args.entries[fn_args.next] IN
              \/ entry.kind = "Proof" /\ ~entry.id.is_masterchain
              \/ entry.kind = "ProofLink" /\ entry.id.is_masterchain)
          => fn_result' = fn_result]_vars

\* A Proof of a non-masterchain block was read after a masterchain block
\* had been recorded, and the maps hold the masterchain block only
C31_Witness ==
    /\ fn_pc = "Ok"
    /\ Len(fn_args.entries) = 2
    /\ fn_args.entries[1].kind = "Block" /\ fn_args.entries[1].id.is_masterchain
    /\ fn_args.entries[2].kind = "Proof" /\ ~fn_args.entries[2].id.is_masterchain
    /\ DOMAIN fn_result.blocks = {fn_args.entries[1].id}
    /\ DOMAIN fn_result.mc_block_ids = {fn_args.entries[1].id.seq_no}


(***************************************************************************)
(* C32: contains_shard_seq_no(shard, s) is s >= mc_block.seq_no for the    *)
(* masterchain shard, s >= height for a shard recorded in shard_heights,   *)
(* s >= the height of a recorded shard that intersects it for an           *)
(* unrecorded shard that has one, and false when no recorded shard         *)
(* intersects it.                                                          *)
(***************************************************************************)
C32_Hits ==
    { x \in DOMAIN fn_args.top_blocks.shard_heights :
        /\ x.workchain_id = fn_args.shard_ident.workchain_id
        /\ \/ \A i \in 1..Len(x.bits) :
                 i <= Len(fn_args.shard_ident.bits) /\ x.bits[i] = fn_args.shard_ident.bits[i]
           \/ \A i \in 1..Len(fn_args.shard_ident.bits) :
                 i <= Len(x.bits) /\ x.bits[i] = fn_args.shard_ident.bits[i] }

C32_Contains ==
    (fn_pc = "done" /\ "top_blocks" \in DOMAIN fn_args)
    => LET tb == fn_args.top_blocks
           sh == fn_args.shard_ident
           s  == fn_args.seq_no
       IN IF sh.workchain_id = -1 THEN fn_result.answer = (s >= tb.mc_block.seq_no)
          ELSE IF sh \in DOMAIN tb.shard_heights
          THEN fn_result.answer = (s >= tb.shard_heights[sh])
          ELSE IF C32_Hits # {}
          THEN \E x \in C32_Hits : fn_result.answer = (s >= tb.shard_heights[x])
          ELSE fn_result.answer = FALSE

\* A shard that was split was asked for: it is not recorded, one of its
\* halves is, and the answer is that of the half
C32_Witness ==
    /\ fn_pc = "done" /\ "top_blocks" \in DOMAIN fn_args
    /\ fn_args.shard_ident \notin DOMAIN fn_args.top_blocks.shard_heights
    /\ Cardinality(C32_Hits) = 1
    /\ \E x \in C32_Hits : Len(x.bits) > Len(fn_args.shard_ident.bits)
    /\ fn_result.answer


(***************************************************************************)
(* C38: the answer of contains_shard_seq_no is the same in whatever order  *)
(* shard_heights is iterated, also for an unrecorded shard that intersects *)
(* several recorded shards of different heights.                           *)
(***************************************************************************)
C38_OrderIndependent ==
    (fn_pc = "done" /\ "top_blocks" \in DOMAIN fn_args)
    => \A order \in Orders(DOMAIN fn_args.top_blocks.shard_heights) :
         contains_shard_seq_no(fn_args.top_blocks, fn_args.shard_ident,
                               fn_args.seq_no, order) = fn_result.answer


(***************************************************************************)
(* C33: when the last process_packet call returned true, finalize reads    *)
(* the records of the cells file from the last written to the first, each  *)
(* once and with the bytes that were written, the k-th written record      *)
(* under index k-1; file_pos and cell_index never fall below 0, and a      *)
(* finalize that ends well has read every record and stands at             *)
(* file_pos = 0, cell_index = 0, however the stream was cut into packets.  *)
(***************************************************************************)
C33_BackwardPass ==
    (rt_pc \in {"chunk", "cell", "done"} /\ rt_returned = "true")
    => /\ rt_file_pos >= 0 /\ rt_cell_index >= 0
       /\ Len(rt_read) <= Len(rt_written)
       /\ \A j \in 1..Len(rt_read) :
            /\ rt_read[j].index = Len(rt_written) - j
            /\ rt_read[j].record = rt_written[rt_read[j].index + 1]
       /\ rt_result = "Ok"
          => /\ Len(rt_read) = Len(rt_written)
             /\ rt_file_pos = 0 /\ rt_cell_index = 0

\* Two different records written by two packets were read back
C33_Witness ==
    /\ rt_result = "Ok" /\ rt_returned = "true"
    /\ Len(rt_written) = 2 /\ rt_written[1] # rt_written[2]
    /\ Len(rt_file) = Len(rt_written[1]) + Len(rt_written[2]) + 2 + 8
    /\ Len(rt_read) = 2


(***************************************************************************)
(* C40: finalize called without a header fails with                        *)
(* InvalidShardStatePacket, and finalize called while cells_read is below  *)
(* header.cell_count fails without handling any spilled record and         *)
(* without storing a shard state.                                          *)
(***************************************************************************)
C40_NoHeader ==
    (rt_pc = "done" /\ ~rt_header)
    => rt_result = "InvalidShardStatePacket" /\ rt_read = << >> /\ rt_hashes = {}

C40_CompleteOnly ==
    /\ C40_NoHeader
    /\ (rt_pc \in {"chunk", "cell", "done"} /\ rt_header /\ rt_cells_read < rt_cell_count)
       => rt_result # "Ok" /\ rt_read = << >> /\ rt_hashes = {}


(***************************************************************************)
(* C39: the (key, value) pairs finalize writes and the root hash it stores *)
(* are those of the pass over the same records and marker held in one      *)
(* chunk: they do not depend on the chunks the packets left in the cells   *)
(* file.  The same holds of the error of a pass that fails.                *)
(***************************************************************************)
RECURSIVE C39_OneChunk(_, _, _, _, _, _)
\* the pass over the records of `stream` from the k-th on, all in one chunk
C39_OneChunk(marker, cell_count, stream, k, wraps, acc) ==
    IF k > Len(stream) \/ acc.status # "ok" THEN acc
    ELSE LET index  == cell_count - k
             cell   == stream[k]
             parsed == from_stored_data(StoredCell(cell.reference_indices),
                                        cell_count, index)
             done   == finalize_cell(marker, cell, index, cell_count - k + 1,
                                     acc.entries, acc.pruned, wraps)
         IN IF ~parsed.ok THEN [acc EXCEPT !.status = "InvalidCell"]
            ELSE IF done.status # "ok" THEN [acc EXCEPT !.status = done.status]
            ELSE C39_OneChunk(marker, cell_count, stream, k + 1, wraps,
                   [status |-> "ok",
                    pairs |-> Append(acc.pairs, [key |-> done.key, value |-> done.value]),
                    entries |-> [j \in DOMAIN acc.entries \cup {index} |->
                                   IF j = index THEN done.entry ELSE acc.entries[j]],
                    pruned |-> done.pruned_branches])

C34_RootStored ==
    /\ fz_root # << >> => fz_batch = << >>
    /\ fz_result \in {"InvalidCell", "Panic"} => fz_root = << >>

C34_RootAfterCells ==
    /\ []C34_RootStored
    /\ [][(fz_root = << >> /\ fz_root' # << >>)
          => /\ fz_batch' = << >>
             /\ \A k \in 1..Len(fz_batch) :
                  \E row \in fz_db' : row.key = fz_batch[k].key
             /\ Cardinality(fz_db') > 0]_vars

\* The root hash was stored by a finalize whose last chunk left a cell in
\* the batch
C34_Witness ==
    /\ fz_pc = "done" /\ fz_result = "Ok" /\ fz_root # << >>
    /\ fz_batch_len > 0
    /\ Cardinality(fz_db) = fz_cell_count


(***************************************************************************)
(* C37: child_depth + 1 does not overflow in finalize_cell: a cell with a  *)
(* child of depth 65535, the largest depth a pruned branch can store, is   *)
(* refused with InvalidCell, neither stored nor the cause of a panic.      *)
(***************************************************************************)
C37_DeepestChild ==
    /\ fz_visit.status # "none"
    /\ from_stored_data(StoredCell(fz_visit.cell.reference_indices),
                        fz_cell_count, fz_visit.index).ok
    /\ fz_visit.cell.cell_type \in {"Ordinary", "LibraryReference", "MerkleProof"}
    /\ \A k \in 1..Len(fz_visit.cell.reference_indices) :
          fz_entries[fz_visit.cell.reference_indices[k]].cell_type = "PrunedBranch"
          => fz_visit.cell.reference_indices[k] \in DOMAIN fz_pruned
    /\ \E k \in 1..Len(fz_visit.cell.reference_indices) :
          ChildDepth(fz_entries, fz_pruned, fz_visit.cell.reference_indices[k],
                     0, fz_visit.cell.cell_type = "MerkleProof") = U16 - 1

C37_NoOverflow ==
    /\ fz_result # "Panic"
    /\ C37_DeepestChild => fz_visit.status = "InvalidCell"


(***************************************************************************)
(* C35: a lookup by logical time or unix time for a prefix covered by the  *)
(* one indexed shard, whose blocks have increasing times, returns the      *)
(* indexed block with the smallest time at or above the target, the block  *)
(* of that very time when there is one, and fails with BlockNotFound when  *)
(* the target is above the time of the last block; the binary search ends  *)
(* for every number of indexed blocks.                                     *)
(***************************************************************************)
C35_Time(entry) ==
    IF bi_lookup.kind = "lt" THEN entry.gen_lt ELSE entry.gen_utime

C35_Covered ==
    /\ bi_pc = "looked"
    /\ \A e \in bi_lt :
         /\ e.shard.wc = bi_lookup.account_prefix.wc
         /\ \A i \in 1..Len(e.shard.bits) :
              e.shard.bits[i] = bi_lookup.account_prefix.bits[i]

C35_NonExact ==
    C35_Covered
    => LET at_or_above == { e \in bi_lt : C35_Time(e) >= bi_lookup.target } IN
       IF at_or_above = {}
         THEN bi_lookup.result = "BlockNotFound"
         ELSE /\ bi_lookup.result = "Ok"
              /\ bi_lookup.block \subseteq at_or_above
              /\ Cardinality(bi_lookup.block) = 1
              /\ \A b \in bi_lookup.block, e \in at_or_above :
                   C35_Time(b) <= C35_Time(e)

\* A target between the times of two of four indexed blocks gave the later
\* of the two
C35_Witness ==
    /\ C35_Covered
    /\ Cardinality(bi_lt) = MaxLkSeqNo
    /\ bi_lookup.result = "Ok"
    /\ \E b \in bi_lookup.block :
         /\ C35_Time(b) > bi_lookup.target
         /\ \E e \in bi_lt : C35_Time(e) < bi_lookup.target


(***************************************************************************)
(* C36: sync never returns BrokenQueue when every started download gives   *)
(* one response: a seq_no with an outstanding request has a queue entry    *)
(* with status Downloading and one request only, and the response          *)
(* collector is awaited only while a download is outstanding.              *)
(***************************************************************************)
C36_NoBrokenQueue ==
    /\ q_result # "BrokenQueue"
    /\ \A s \in DOMAIN q_pending :
         /\ s \in DOMAIN q_queue
         /\ q_queue[s] = "Downloading"
         /\ q_pending[s] = 1
    /\ q_pc = "wait" => DOMAIN q_pending # {}

====
